---- MODULE Spec2Model ----
(***************************************************************************)
(* Clipboard synchronisation and focus-gated delivery of the               *)
(* iron-remote-desktop web component                                       *)
(* (web-client/iron-remote-desktop/src/iron-remote-desktop.svelte).        *)
(*                                                                         *)
(* The component is single threaded: every handler, timer callback and     *)
(* continuation of an awaited call runs to its next await without          *)
(* interleaving, so each action below is one such run.                     *)
(***************************************************************************)
EXTENDS Integers, Sequences, FiniteSets, TLC

\* ------------------------------------------------------------------ bounds
\* Inputs of the environment in one behaviour: callbacks of the remote
\* module, changes of the platform clipboard by the user, and exceptions
\* raised by the platform or the remote module.
MaxEnvEvents == 3
\* Calls of runWhenWindowFocused made by the focus-gate harness.
MaxGateCalls == 3

\* ------------------------------------------------------------- MIME kinds
\* A MIME type "type/subtype" is the pair <<type, subtype>>.
TextPlain == <<"text", "plain">>
ImagePng == <<"image", "png">>
AppOctet == <<"application", "octet-stream">>
Kinds == {TextPlain, ImagePng, AppOctet}

\* kind.startsWith('text/')
StartsWithText(kind) == kind[1] = "text"
\* kind.startsWith('image/')
StartsWithImage(kind) == kind[1] = "image"
\* kind.startsWith('image/png')
StartsWithImagePng(kind) == kind[1] = "image" /\ kind[2] = "png"

\* ----------------------------------------------------------------- values
\* A JavaScript value of a snapshot: a string, a Uint8Array or undefined.
\* v holds the code units of a string (ASCII here, so also its UTF-8 bytes)
\* or the bytes of a Uint8Array.
Undefined == [t |-> "undefined", v |-> <<>>]
Null == [t |-> "null", v |-> <<>>]
Str(units) == [t |-> "string", v |-> units]
Bin(bytes) == [t |-> "Uint8Array", v |-> bytes]

\* Text and byte contents used by the environment.
Hello == <<104>>
World == <<119>>
Abc == <<97, 98, 99>>
Png1 == <<1, 2>>
Png2 == <<1, 3>>

\* The comparison the poll tick builds per kind: === for a text kind,
\* length and element-wise equality of two Uint8Arrays otherwise.  The newly
\* read value is a fresh object, so === on two Uint8Arrays is never true.
is_equal(blobIsString, a, b) ==
    IF blobIsString
    THEN \/ a.t = "string" /\ b.t = "string" /\ a.v = b.v
         \/ a.t = "undefined" /\ b.t = "undefined"
    ELSE /\ a.t = "Uint8Array"
         /\ b.t = "Uint8Array"
         /\ Len(a.v) = Len(b.v)
         /\ \A i \in 1..Len(a.v) : a.v[i] = b.v[i]

\* A Record<string, string | Uint8Array>: every key that was never set reads
\* as undefined.
EmptyRecord == [k \in Kinds |-> Undefined]

\* ---------------------------------------------------------- ClipboardData
\* The remote module's clipboard-data object: the sequence of its items,
\* each [mime, value].
NewClipboardData == <<>>
addText(data, mime, value) == Append(data, [mime |-> mime, value |-> value])
addBinary(data, mime, value) == Append(data, [mime |-> mime, value |-> value])
isEmpty(data) == Len(data) = 0

\* clipboardDataToClipboardItemsRecord: result[mime] = item.value() for each
\* item in order, a later item of the same MIME type overwriting.
RECURSIVE ItemsRecordFrom(_, _)
ItemsRecordFrom(items, result) ==
    IF items = <<>> THEN result
    ELSE ItemsRecordFrom(Tail(items),
                         [result EXCEPT ![Head(items).mime] = Head(items).value])

clipboardDataToClipboardItemsRecord(data) == ItemsRecordFrom(data, EmptyRecord)

\* clipboardDataToRecord followed by new ClipboardItem(record): one Blob per
\* MIME type holding the bytes of the value, the types in the order the keys
\* were first set.  A platform clipboard item is the sequence of its
\* representations [mime, bytes].
RECURSIVE BlobsFrom(_, _)
BlobsFrom(items, result) ==
    IF items = <<>> THEN result
    ELSE LET it == Head(items)
             at == {i \in 1..Len(result) : result[i].mime = it.mime}
         IN BlobsFrom(Tail(items),
                IF at = {}
                THEN Append(result, [mime |-> it.mime, bytes |-> it.value.v])
                ELSE [i \in 1..Len(result) |->
                        IF i \in at
                        THEN [mime |-> it.mime, bytes |-> it.value.v]
                        ELSE result[i]])

clipboardDataToRecord(data) == BlobsFrom(data, <<>>)

\* What a read of one representation yields: blob.text() for a text kind,
\* new Uint8Array(await blob.arrayBuffer()) otherwise.
DecodeBlob(kind, bytes) == IF StartsWithText(kind) THEN Str(bytes) ELSE Bin(bytes)

\* item.types.some(type => type.startsWith('text/') || type.startsWith('image/png'))
IsEligible(item) ==
    \E i \in 1..Len(item) :
        StartsWithText(item[i].mime) \/ StartsWithImagePng(item[i].mime)

\* The Object.entries(values).forEach of the poll tick: one entry per key in
\* insertion order (the order of item.types), text kinds holding a string by
\* addText, image kinds holding a Uint8Array by addBinary, all else dropped.
RECURSIVE BuildFromStopping(_, _, _)
RECURSIVE BuildFrom(_, _, _)
\* A variant of BuildFrom (below) that gives up at the first key it cannot
\* add.
BuildFromStopping(order, values, data) ==
    IF order = <<>> THEN data
    ELSE LET key == Head(order)
             value == values[key]
         IN IF StartsWithText(key) /\ value.t = "string"
            THEN BuildFromStopping(Tail(order), values, addText(data, key, value))
            ELSE IF StartsWithImage(key) /\ value.t = "Uint8Array"
            THEN BuildFromStopping(Tail(order), values, addBinary(data, key, value))
            ELSE data

BuildFrom(order, values, data) ==
    IF order = <<>> THEN data
    ELSE LET key == Head(order)
             value == values[key]
         IN BuildFrom(Tail(order), values,
                IF value.t \in {"undefined", "null"} THEN data
                ELSE IF StartsWithText(key) /\ value.t = "string"
                     THEN addText(data, key, value)
                ELSE IF StartsWithImage(key) /\ value.t = "Uint8Array"
                     THEN addBinary(data, key, value)
                ELSE data)

BuildClipboardData(order, values) == BuildFrom(order, values, NewClipboardData)

\* ------------------------------------------------------ environment inputs
\* Payloads the remote module reports; the last one has no item (the remote
\* clipboard was emptied).
RemotePayloads ==
    { <<[mime |-> TextPlain, value |-> Str(Hello)]>>,
      <<[mime |-> TextPlain, value |-> Str(Hello)],
        [mime |-> ImagePng, value |-> Bin(Png1)]>>,
      NewClipboardData }

\* Items the user can put on the platform clipboard; <<>> is an empty
\* clipboard.
LocalItems ==
    { <<[mime |-> TextPlain, bytes |-> Hello]>>,
      <<[mime |-> TextPlain, bytes |-> World]>>,
      <<[mime |-> TextPlain, bytes |-> Hello], [mime |-> ImagePng, bytes |-> Png2]>>,
      <<[mime |-> AppOctet, bytes |-> Png1]>> }

\* Error values a platform call or the remote module can throw, each named by
\* its string form.
Errors == {"NotAllowedError", "DataError"}
NoError == "null"
\* A thrown value that is not an instance of Error (the remote module can
\* reject with a value of its own).
NonErrorValue == "IronError"
Thrown == Errors \cup {NonErrorValue}

\* ------------------------------------------------------------------ state
VARIABLES
    \* the hosting browser
    isFirefox,                      \* navigator.userAgent names firefox
    navClipboard,                   \* "none", "textOnly" (no read/write) or "full"
    hasFocus,                       \* document.hasFocus()
    localClipboard,                 \* first item of the platform clipboard, <<>> if empty
    platformWrites,                 \* navigator.clipboard.write calls not yet settled
    \* the component
    mounted,                        \* onMount has run to its end (initClipboard done)
    handlers,                       \* callbacks and listeners registered so far
    isClipboardApiSupported,
    lastClientClipboardItems,
    lastReceivedClipboardData,
    lastSentClipboardData,          \* NoData stands for null
    lastClipboardMonitorLoopError,
    componentDestroyed,
    runWhenFocusedQueue,
    pollTimers,                     \* pending setTimeout(onMonitorClipboard)
    tick,                           \* the onMonitorClipboard invocation in flight
    \* the component, Firefox only
    ffRemoteClipboardData,          \* NoData stands for null
    ffRemoteClipboardDataRetriesLeft,
    ffPostponeKeyboardEvents,
    ffDelayedKeyboardEvents,
    ffWaitTimers,                   \* pending setTimeout(ffWaitForRemoteClipboardDataSet)
    ffKeyTimers,                    \* pending setTimeout(ffSimulateDelayedKeyEvents)
    pasteCallbacks,                 \* getAsString / arrayBuffer results not yet delivered
    \* history
    outbound,                       \* calls made into the remote module, in order
    writeLog,                       \* the remote updates written, in order
    executed,                       \* the harness actions run, in order
    textWrites,                     \* navigator.clipboard.writeText calls, in order
    sentKeys,                       \* key events sent to the remote session, in order
    keyCount,
    propagated,                     \* handlers an exception has escaped from
    reported,                       \* console.error calls of the poll tick's catch block, in order
    ffHist,                         \* history of the Firefox timers and key deliveries
    remoteCount,
    lastRemoteSnapshot,             \* snapshot of the newest remote update received
    envEvents,
    gateCalls

vars == << isFirefox, navClipboard, hasFocus, localClipboard, platformWrites,
           mounted, handlers, isClipboardApiSupported, lastClientClipboardItems,
           lastReceivedClipboardData, lastSentClipboardData,
           lastClipboardMonitorLoopError, componentDestroyed, runWhenFocusedQueue,
           pollTimers, tick, ffRemoteClipboardData,
           ffRemoteClipboardDataRetriesLeft, ffPostponeKeyboardEvents,
           ffDelayedKeyboardEvents, ffWaitTimers, ffKeyTimers, pasteCallbacks,
           outbound, writeLog, executed, textWrites, sentKeys, keyCount,
           propagated, reported, ffHist, remoteCount, lastRemoteSnapshot,
           envEvents, gateCalls >>

browserVars == << isFirefox, navClipboard >>
ffVars == << ffRemoteClipboardData, ffRemoteClipboardDataRetriesLeft,
             ffPostponeKeyboardEvents, ffDelayedKeyboardEvents, ffWaitTimers,
             ffKeyTimers, pasteCallbacks, textWrites, sentKeys, keyCount,
             ffHist >>
stdVars == << lastClientClipboardItems, lastReceivedClipboardData,
              lastSentClipboardData, lastClipboardMonitorLoopError, reported,
              runWhenFocusedQueue, pollTimers, tick, platformWrites, writeLog,
              executed, remoteCount, lastRemoteSnapshot, gateCalls >>
historyCounters == << remoteCount, envEvents, gateCalls >>

\* A ClipboardData | null variable: null, or a reference to data.
NoData == [isNull |-> TRUE, data |-> NewClipboardData]
Ref(data) == [isNull |-> FALSE, data |-> data]
\* The history of the Firefox timers and key deliveries: waitOrder and
\* keyOrder name, for each pending retry timer and postponement timer in
\* firing order, the chain (copy keystroke) or window (paste keystroke) that
\* set it; chain is the newest chain, firings the firings of its timers so
\* far, arrived whether the holder had data at or after its start; window is
\* the paste keystroke whose buffering window is open (0 if none); failed
\* holds the positions of sentKeys whose sendKeyboardEvent call threw.
NoHistory == [waitOrder |-> <<>>, chain |-> 0, firings |-> 0, arrived |-> FALSE,
              keyOrder |-> <<>>, window |-> 0, failed |-> {}]
NoHandlers == [remoteClipboardChanged |-> "none", forceClipboardUpdate |-> FALSE,
               remoteReceivedFormatList |-> FALSE, focus |-> FALSE]
\* No onMonitorClipboard in flight.  Beside the invocation's own variables
\* (item, the loop index, values, sameValue) a tick carries three history
\* fields: before, the client snapshot when it started; vsRemote, whether
\* some kind it compared differed from both the client snapshot and the
\* newest remote update received (lastRemoteSnapshot); lateRead, whether the
\* component was already destroyed when its clipboard read resolved.
IdleTick == [pc |-> "idle", item |-> <<>>, idx |-> 0, values |-> EmptyRecord,
             sameValue |-> TRUE, before |-> EmptyRecord, vsRemote |-> FALSE,
             lateRead |-> FALSE]

\* ------------------------------------------------------------- focus gate
\* The id of the follow-up action a "nest" action hands over when it runs.
FollowUpOffset == 10
FollowUp(id) == id + FollowUpOffset

\* The state a queued action can read or change, as one record.
GateState == [queue |-> runWhenFocusedQueue,
              lastReceived |-> lastReceivedClipboardData,
              writes |-> platformWrites,
              writeLog |-> writeLog,
              executed |-> executed,
              focused |-> hasFocus,
              threw |-> FALSE]

SetGateState(g) ==
    /\ runWhenFocusedQueue' = g.queue
    /\ lastReceivedClipboardData' = g.lastReceived
    /\ platformWrites' = g.writes
    /\ writeLog' = g.writeLog
    /\ executed' = g.executed

\* One call fn().  A "write" action is the closure onRemoteClipboardChanged
\* passes: it records the snapshot of its data and issues the platform write
\* of the ClipboardItem built at receipt.  "ok" and "throw" are the harness's
\* actions: each records that it ran, and "throw" then raises.
\* A "nest" action records that it ran and hands a follow-up action of kind
\* "ok" to runWhenWindowFocused, which runs it at once or queues it as
\* document.hasFocus() (g.focused) says at that moment.
\* from is the caller, "call" (runWhenWindowFocused) or "drain"
\* (focusEventHandler); it is kept in the histories only.
RunAction(fn, g, from) ==
    IF fn.k = "write"
    THEN [g EXCEPT !.lastReceived = clipboardDataToClipboardItemsRecord(fn.data),
                   !.writes = Append(@, clipboardDataToRecord(fn.data)),
                   !.writeLog = Append(@, [id |-> fn.id, from |-> from])]
    ELSE IF fn.k = "nest"
    THEN IF g.focused
         THEN [g EXCEPT !.executed = @ \o << [id |-> fn.id, from |-> from],
                                              [id |-> FollowUp(fn.id), from |-> "call"] >>]
         ELSE [g EXCEPT !.executed = Append(@, [id |-> fn.id, from |-> from]),
                        !.queue = Append(@, [k |-> "ok", id |-> FollowUp(fn.id),
                                             data |-> NewClipboardData])]
    ELSE [g EXCEPT !.executed = Append(@, [id |-> fn.id, from |-> from]),
                   !.threw = (fn.k = "throw")]

\* A variant of runWhenWindowFocused (below) that queues the action even when
\* the window has focus.
runWhenWindowFocusedAlwaysQueue(fn, focused, g) ==
    [g EXCEPT !.queue = Append(@, fn)]

\* A variant of runWhenWindowFocused (below) that forgets the action when the
\* window lacks focus.
runWhenWindowFocusedDropping(fn, focused, g) ==
    IF focused
    THEN RunAction(fn, g, "call")
    ELSE g

\* runWhenWindowFocused(fn) with document.hasFocus() = focused.
runWhenWindowFocused(fn, focused, g) ==
    IF focused
    THEN RunAction(fn, g, "call")
    ELSE [g EXCEPT !.queue = Append(@, fn)]

\* focusEventHandler: shift and call until the queue is empty; an exception
\* leaves the loop and the handler.
RECURSIVE focusEventHandler(_)
focusEventHandler(g) ==
    IF Len(g.queue) > 0
    THEN LET fn == Head(g.queue)
             after == RunAction(fn, [g EXCEPT !.queue = Tail(@)], "drain")
         IN IF after.threw THEN after ELSE focusEventHandler(after)
    ELSE g

\* ------------------------------------------------------------------- init
InitComponent ==
    /\ hasFocus \in BOOLEAN
    /\ localClipboard = <<>>
    /\ platformWrites = <<>>
    /\ mounted = FALSE
    /\ handlers = NoHandlers
    /\ isClipboardApiSupported = FALSE
    /\ lastClientClipboardItems = EmptyRecord
    /\ lastReceivedClipboardData = EmptyRecord
    /\ lastSentClipboardData = NoData
    /\ lastClipboardMonitorLoopError = NoError
    /\ componentDestroyed = FALSE
    /\ runWhenFocusedQueue = <<>>
    /\ pollTimers = 0
    /\ tick = IdleTick
    /\ ffRemoteClipboardData = NoData
    /\ ffRemoteClipboardDataRetriesLeft = 0
    /\ ffPostponeKeyboardEvents = FALSE
    /\ ffDelayedKeyboardEvents = <<>>
    /\ ffWaitTimers = 0
    /\ ffKeyTimers = 0
    /\ pasteCallbacks = <<>>
    /\ textWrites = <<>>
    /\ sentKeys = <<>>
    /\ keyCount = 0
    /\ propagated = {}
    /\ reported = <<>>
    /\ ffHist = NoHistory
    /\ outbound = <<>>
    /\ writeLog = <<>>
    /\ executed = <<>>
    /\ remoteCount = 0
    /\ lastRemoteSnapshot = EmptyRecord
    /\ envEvents = 0
    /\ gateCalls = 0

\* A browser with the asynchronous Clipboard API that is not Firefox.
InitStd ==
    /\ isFirefox = FALSE
    /\ navClipboard = "full"
    /\ InitComponent

\* A variant of initClipboardSupported (below) that does not look at the
\* browser's identity.
initClipboardSupportedAnyBrowser == navClipboard = "full"

\* A variant of initClipboardHandlers (below) that selects the Firefox
\* handlers by the missing API instead of the browser's identity.
initClipboardHandlersByCapability ==
    IF navClipboard # "full"
    THEN [remoteClipboardChanged |-> "ffOnRemoteClipboardChanged",
          forceClipboardUpdate |-> TRUE, remoteReceivedFormatList |-> TRUE,
          focus |-> TRUE]
    ELSE IF ~isFirefox
    THEN [remoteClipboardChanged |-> "onRemoteClipboardChanged",
          forceClipboardUpdate |-> TRUE, remoteReceivedFormatList |-> FALSE,
          focus |-> TRUE]
    ELSE [NoHandlers EXCEPT !.focus = TRUE]

\* A variant of initClipboardHandlers (below) that registers the standard
\* handlers without looking at the capability check.
initClipboardHandlersUnchecked ==
    IF isFirefox
    THEN [remoteClipboardChanged |-> "ffOnRemoteClipboardChanged",
          forceClipboardUpdate |-> TRUE, remoteReceivedFormatList |-> TRUE,
          focus |-> TRUE]
    ELSE [remoteClipboardChanged |-> "onRemoteClipboardChanged",
          forceClipboardUpdate |-> TRUE, remoteReceivedFormatList |-> FALSE,
          focus |-> TRUE]

\* initClipboard: the capability check and the registration it selects.
initClipboardSupported == ~isFirefox /\ navClipboard = "full"

initClipboardHandlers ==
    IF isFirefox
    THEN [remoteClipboardChanged |-> "ffOnRemoteClipboardChanged",
          forceClipboardUpdate |-> TRUE, remoteReceivedFormatList |-> TRUE,
          focus |-> TRUE]
    ELSE IF initClipboardSupported
    THEN [remoteClipboardChanged |-> "onRemoteClipboardChanged",
          forceClipboardUpdate |-> TRUE, remoteReceivedFormatList |-> FALSE,
          focus |-> TRUE]
    ELSE [NoHandlers EXCEPT !.focus = TRUE]

\* onMount is suspended at `await initcanvas()`: initListeners has added the
\* window's key and focus listeners, initClipboard has not run yet.  The code
\* yields to the job queue here for one turn: promise reactions (such as one
\* queued by a listener of the 'ready' event) and what they do (dispatch an
\* event, destroy the component) run in this state; timers, callbacks queued
\* as tasks and the browser's own events do not.  onDestroy, which removes
\* the focus listener, does not cancel the continuation.
InMountGap == ~mounted /\ (handlers.focus \/ componentDestroyed)

\* initListeners has added the keydown and keyup listeners of the window;
\* onDestroy does not remove them.
KeyListenersAdded == mounted \/ InMountGap

\* onMount up to its await: initcanvas, whose initListeners adds the window's
\* key and focus listeners.
Mount ==
    /\ ~mounted
    /\ ~InMountGap
    /\ handlers' = [handlers EXCEPT !.focus = TRUE]
    /\ UNCHANGED << browserVars, propagated, ffVars, hasFocus, localClipboard, platformWrites,
                    mounted, isClipboardApiSupported, pollTimers,
                    lastClientClipboardItems, lastReceivedClipboardData,
                    lastSentClipboardData, lastClipboardMonitorLoopError, reported,
                    componentDestroyed, runWhenFocusedQueue, tick, outbound,
                    writeLog, executed, lastRemoteSnapshot, historyCounters >>

\* onMount resumes after the await: initClipboard, which registers the
\* callbacks of the mode and starts the poll loop in standard mode.
MountResumes ==
    /\ InMountGap
    /\ mounted' = TRUE
    /\ isClipboardApiSupported' = initClipboardSupported
    /\ handlers' = [initClipboardHandlers EXCEPT !.focus = handlers.focus]
    /\ pollTimers' = IF ~isFirefox /\ initClipboardSupported THEN pollTimers + 1
                     ELSE pollTimers
    /\ UNCHANGED << browserVars, propagated, ffVars, hasFocus, localClipboard, platformWrites,
                    lastClientClipboardItems, lastReceivedClipboardData,
                    lastSentClipboardData, lastClipboardMonitorLoopError, reported,
                    componentDestroyed, runWhenFocusedQueue, tick, outbound,
                    writeLog, executed, lastRemoteSnapshot, historyCounters >>

\* A variant of Destroy (below) that also empties the pending queue.
DestroyClearingQueue ==
    /\ KeyListenersAdded
    /\ ~componentDestroyed
    /\ componentDestroyed' = TRUE
    /\ handlers' = [handlers EXCEPT !.focus = FALSE]
    /\ runWhenFocusedQueue' = <<>>
    /\ UNCHANGED << browserVars, propagated, ffVars, hasFocus, localClipboard, platformWrites, mounted,
                    isClipboardApiSupported, lastClientClipboardItems,
                    lastReceivedClipboardData, lastSentClipboardData,
                    lastClipboardMonitorLoopError, reported, pollTimers,
                    tick, outbound, writeLog, executed, lastRemoteSnapshot,
                    historyCounters >>

\* onDestroy: the focus listener is removed and the destroyed flag set.  It
\* can run as soon as onMount has started, also while onMount is suspended.
Destroy ==
    /\ KeyListenersAdded
    /\ ~componentDestroyed
    /\ componentDestroyed' = TRUE
    /\ handlers' = [handlers EXCEPT !.focus = FALSE]
    /\ UNCHANGED << browserVars, propagated, ffVars, hasFocus, localClipboard, platformWrites, mounted,
                    isClipboardApiSupported, lastClientClipboardItems,
                    lastReceivedClipboardData, lastSentClipboardData,
                    lastClipboardMonitorLoopError, reported, runWhenFocusedQueue, pollTimers,
                    tick, outbound, writeLog, executed, lastRemoteSnapshot,
                    historyCounters >>

\* ------------------------------------------------------------ focus events
\* The window gains focus: document.hasFocus() turns true and the focus event
\* is dispatched to focusEventHandler, while the listener is registered, with
\* no other handler of the component running in between.  FocusReported and
\* FocusEventHandled (below) are the same two effects as separate steps, and
\* FocusEventUnfocused is the event handled after focus was lost again.
FocusGained ==
    /\ ~InMountGap
    /\ hasFocus' = TRUE
    /\ SetGateState(IF handlers.focus
                    THEN focusEventHandler([GateState EXCEPT !.focused = TRUE])
                    ELSE GateState)
    /\ propagated' = IF handlers.focus
                        /\ focusEventHandler([GateState EXCEPT !.focused = TRUE]).threw
                     THEN propagated \cup {"focusEventHandler"}
                     ELSE propagated
    /\ UNCHANGED << browserVars, ffVars, localClipboard, mounted, handlers,
                    isClipboardApiSupported, lastClientClipboardItems,
                    lastSentClipboardData, lastClipboardMonitorLoopError, reported,
                    componentDestroyed, pollTimers, tick, outbound,
                    lastRemoteSnapshot, historyCounters >>

FocusLost ==
    /\ ~InMountGap
    /\ hasFocus
    /\ hasFocus' = FALSE
    /\ UNCHANGED << browserVars, propagated, ffVars, localClipboard, platformWrites, mounted, handlers,
                    isClipboardApiSupported, lastClientClipboardItems,
                    lastReceivedClipboardData, lastSentClipboardData,
                    lastClipboardMonitorLoopError, reported, componentDestroyed,
                    runWhenFocusedQueue, pollTimers, tick, outbound, writeLog,
                    executed, lastRemoteSnapshot, historyCounters >>

\* -------------------------------------------------- remote module callbacks
\* new ClipboardItem(mime_formats): the constructor throws a TypeError when
\* the record has no entry.
ClipboardItemThrows(mime_formats) == mime_formats = <<>>

\* The payloads of which the ClipboardItem can be built.
ConvertiblePayloads ==
    {data \in RemotePayloads : ~ClipboardItemThrows(clipboardDataToRecord(data))}

\* onRemoteClipboardChanged(data): the ClipboardItem is built at once, the
\* recording of the snapshot and the platform write are handed to
\* runWhenWindowFocused as one action.  The whole body is inside a try/catch:
\* when the building of the ClipboardItem throws, the catch logs the error
\* and runWhenWindowFocused is never reached, so the update is neither
\* written nor queued.
RemoteClipboardChanged(data) ==
    /\ handlers.remoteClipboardChanged = "onRemoteClipboardChanged"
    /\ envEvents < MaxEnvEvents
    /\ envEvents' = envEvents + 1
    /\ remoteCount' = remoteCount + 1
    /\ lastRemoteSnapshot' = clipboardDataToClipboardItemsRecord(data)
    /\ SetGateState(IF ClipboardItemThrows(clipboardDataToRecord(data))
                    THEN GateState
                    ELSE runWhenWindowFocused(
                            [k |-> "write", id |-> remoteCount + 1, data |-> data],
                            hasFocus, GateState))
    /\ UNCHANGED << browserVars, propagated, ffVars, hasFocus, localClipboard, mounted, handlers,
                    isClipboardApiSupported, lastClientClipboardItems,
                    lastSentClipboardData, lastClipboardMonitorLoopError, reported,
                    componentDestroyed, pollTimers, tick, outbound, gateCalls >>

\* A variant of ForceUpdateCall (below) that answers with onClipboardChanged
\* even when nothing was sent before, handing over a fresh clipboard data.
ForceUpdateCallAlwaysData(lastSent) ==
    [op |-> "onClipboardChanged", data |-> lastSent.data]

\* What onForceClipboardUpdate hands to the remote module.
ForceUpdateCall(lastSent) ==
    IF ~lastSent.isNull
    THEN [op |-> "onClipboardChanged", data |-> lastSent.data]
    ELSE [op |-> "onClipboardChangedEmpty", data |-> NewClipboardData]

\* A variant of ForceUpdateEscapes (below) without the try/catch.
ForceUpdateEscapesUncaught(threw) == threw

\* The try/catch of onForceClipboardUpdate: whether an exception thrown by the
\* outbound call (threw) leaves the handler.  The catch logs it.
ForceUpdateEscapes(threw) == FALSE

\* onForceClipboardUpdate(); the outbound call returns or throws.
ForceClipboardUpdate ==
    /\ handlers.forceClipboardUpdate
    /\ envEvents < MaxEnvEvents
    /\ envEvents' = envEvents + 1
    /\ outbound' = Append(outbound, ForceUpdateCall(lastSentClipboardData))
    /\ \E threw \in BOOLEAN :
          propagated' = IF ForceUpdateEscapes(threw)
                        THEN propagated \cup {"onForceClipboardUpdate"}
                        ELSE propagated
    /\ UNCHANGED << browserVars, ffVars, hasFocus, localClipboard, platformWrites, mounted,
                    handlers, isClipboardApiSupported, lastClientClipboardItems,
                    lastReceivedClipboardData, lastSentClipboardData,
                    lastClipboardMonitorLoopError, reported, componentDestroyed,
                    runWhenFocusedQueue, pollTimers, tick, writeLog, executed,
                    remoteCount, lastRemoteSnapshot, gateCalls >>

\* ------------------------------------------------------ platform clipboard
\* The user copies something (or clears the clipboard) outside the component.
LocalCopy(item) ==
    /\ envEvents < MaxEnvEvents
    /\ item # localClipboard
    /\ envEvents' = envEvents + 1
    /\ localClipboard' = item
    /\ UNCHANGED << browserVars, propagated, ffVars, hasFocus, platformWrites, mounted, handlers,
                    isClipboardApiSupported, lastClientClipboardItems,
                    lastReceivedClipboardData, lastSentClipboardData,
                    lastClipboardMonitorLoopError, reported, componentDestroyed,
                    runWhenFocusedQueue, pollTimers, tick, outbound, writeLog,
                    executed, remoteCount, lastRemoteSnapshot, gateCalls >>

\* The oldest navigator.clipboard.write settles: it lands on the platform
\* clipboard, or is rejected (the rejection is logged by the .catch).
PlatformWriteSettles(lands) ==
    /\ platformWrites # <<>>
    /\ platformWrites' = Tail(platformWrites)
    /\ localClipboard' = IF lands THEN Head(platformWrites) ELSE localClipboard
    /\ UNCHANGED << browserVars, propagated, ffVars, hasFocus, mounted, handlers,
                    isClipboardApiSupported, lastClientClipboardItems,
                    lastReceivedClipboardData, lastSentClipboardData,
                    lastClipboardMonitorLoopError, reported, componentDestroyed,
                    runWhenFocusedQueue, pollTimers, tick, outbound, writeLog,
                    executed, remoteCount, lastRemoteSnapshot, historyCounters >>

\* -------------------------------------------------------------- poll tick
\* A variant of CompareKind (below) that compares the values of binary kinds
\* by reference: two reads never yield the same Uint8Array object.
CompareKindByReference(client, received, kind, value, sameValue) ==
    IF StartsWithText(kind)
    THEN IF ~is_equal(TRUE, client[kind], value)
         THEN IF is_equal(TRUE, received[kind], value)
              THEN [client |-> [client EXCEPT ![kind] = received[kind]],
                    sameValue |-> sameValue]
              ELSE [client |-> client, sameValue |-> FALSE]
         ELSE [client |-> client, sameValue |-> sameValue]
    ELSE [client |-> client, sameValue |-> FALSE]

\* A variant of CompareKind (below) that stores a changed value into the
\* client snapshot as soon as it is seen.
CompareKindStoreChanged(client, received, kind, value, sameValue) ==
    IF ~is_equal(StartsWithText(kind), client[kind], value)
    THEN IF is_equal(StartsWithText(kind), received[kind], value)
         THEN [client |-> [client EXCEPT ![kind] = received[kind]],
               sameValue |-> sameValue]
         ELSE [client |-> [client EXCEPT ![kind] = value], sameValue |-> FALSE]
    ELSE [client |-> client, sameValue |-> sameValue]

\* The body of the for loop of onMonitorClipboard for one kind whose newly
\* read value is value: the client snapshot and the sameValue flag after it.
CompareKind(client, received, kind, value, sameValue) ==
    LET blobIsString == StartsWithText(kind)
        previousValue == client[kind]
    IN IF ~is_equal(blobIsString, previousValue, value)
       THEN IF is_equal(blobIsString, received[kind], value)
            THEN [client |-> [client EXCEPT ![kind] = received[kind]],
                  sameValue |-> sameValue]
            ELSE [client |-> client, sameValue |-> FALSE]
       ELSE [client |-> client, sameValue |-> sameValue]

\* item.types
TypesOf(item) == [i \in 1..Len(item) |-> item[i].mime]

\* A variant of Reschedule (below) without the finally block: no successor is
\* scheduled.
RescheduleNever(timers) == timers

\* A variant of Reschedule (below) that schedules a successor both at the end
\* of the try block and in the finally block.
RescheduleTwice(timers) == IF ~componentDestroyed THEN timers + 2 ELSE timers

\* The finally block: the successor is scheduled unless the component was
\* destroyed.  timers is the number pending when the block runs.
Reschedule(timers) == IF ~componentDestroyed THEN timers + 1 ELSE timers

\* The catch block: only an instance of Error is looked at; it is printed
\* unless its string form equals that of the last error kept, and it becomes
\* the last error kept.  The finally block follows.
TickCatches(err) ==
    /\ envEvents < MaxEnvEvents
    /\ envEvents' = envEvents + 1
    /\ IF err \in Errors
       THEN LET printError == \/ lastClipboardMonitorLoopError = NoError
                              \/ lastClipboardMonitorLoopError # err
            IN /\ reported' = IF printError THEN Append(reported, err) ELSE reported
               /\ lastClipboardMonitorLoopError' = err
       ELSE UNCHANGED << reported, lastClipboardMonitorLoopError >>
    /\ pollTimers' = Reschedule(pollTimers)
    /\ tick' = IdleTick

\* The pending timer fires and onMonitorClipboard starts: it returns at once
\* without focus and awaits navigator.clipboard.read() otherwise.
MonitorTimerFires ==
    /\ pollTimers > 0
    /\ tick.pc = "idle"
    /\ IF ~hasFocus
       THEN /\ pollTimers' = Reschedule(pollTimers - 1)
            /\ tick' = IdleTick
       ELSE /\ pollTimers' = pollTimers - 1
            /\ tick' = [IdleTick EXCEPT !.pc = "read",
                                        !.before = lastClientClipboardItems]
    /\ UNCHANGED << browserVars, propagated, ffVars, hasFocus, localClipboard, platformWrites, mounted,
                    handlers, isClipboardApiSupported, lastClientClipboardItems,
                    lastReceivedClipboardData, lastSentClipboardData,
                    lastClipboardMonitorLoopError, reported, componentDestroyed,
                    runWhenFocusedQueue, outbound, writeLog, executed,
                    lastRemoteSnapshot, historyCounters >>

\* navigator.clipboard.read() resolves with the clipboard's content: an empty
\* clipboard or an ineligible first item ends the tick.
ClipboardReadResolves ==
    /\ tick.pc = "read"
    /\ IF localClipboard = <<>> \/ ~IsEligible(localClipboard)
       THEN /\ pollTimers' = Reschedule(pollTimers)
            /\ tick' = IdleTick
       ELSE /\ pollTimers' = pollTimers
            /\ tick' = [tick EXCEPT !.pc = "kind", !.item = localClipboard,
                                    !.idx = 1, !.lateRead = componentDestroyed]
    /\ UNCHANGED << browserVars, propagated, ffVars, hasFocus, localClipboard, platformWrites, mounted,
                    handlers, isClipboardApiSupported, lastClientClipboardItems,
                    lastReceivedClipboardData, lastSentClipboardData,
                    lastClipboardMonitorLoopError, reported, componentDestroyed,
                    runWhenFocusedQueue, outbound, writeLog, executed,
                    lastRemoteSnapshot, historyCounters >>

\* An awaited platform call of the tick (the read, getType or the blob's
\* decoding) rejects.
PlatformCallRejects(err) ==
    /\ tick.pc \in {"read", "kind"}
    /\ TickCatches(err)
    /\ UNCHANGED << browserVars, propagated, ffVars, hasFocus, localClipboard, platformWrites, mounted,
                    handlers, isClipboardApiSupported, lastClientClipboardItems,
                    lastReceivedClipboardData, lastSentClipboardData,
                    componentDestroyed, runWhenFocusedQueue, outbound, writeLog,
                    executed, remoteCount, lastRemoteSnapshot, gateCalls >>

\* getType and the decoding of the current kind resolve.  After the last
\* kind the rest of the try block runs up to the awaited outbound call.
KindResolves ==
    /\ tick.pc = "kind"
    /\ LET kind == tick.item[tick.idx].mime
           value == DecodeBlob(kind, tick.item[tick.idx].bytes)
           cmp == CompareKind(lastClientClipboardItems, lastReceivedClipboardData,
                              kind, value, tick.sameValue)
           values == [tick.values EXCEPT ![kind] = value]
           differs == ~is_equal(StartsWithText(kind),
                                lastClientClipboardItems[kind], value)
           vsRemote ==
               \/ tick.vsRemote
               \/ /\ differs
                  /\ ~is_equal(StartsWithText(kind), lastRemoteSnapshot[kind], value)
           clipboardData == BuildClipboardData(TypesOf(tick.item), values)
       IN IF tick.idx < Len(tick.item)
          THEN /\ tick' = [tick EXCEPT !.idx = @ + 1, !.values = values,
                                       !.sameValue = cmp.sameValue,
                                       !.vsRemote = vsRemote]
               /\ lastClientClipboardItems' = cmp.client
               /\ UNCHANGED << lastSentClipboardData, outbound, pollTimers >>
          ELSE IF ~cmp.sameValue
          THEN /\ lastClientClipboardItems' = values
               /\ IF ~isEmpty(clipboardData)
                  THEN /\ lastSentClipboardData' = Ref(clipboardData)
                       /\ outbound' = Append(outbound,
                              [op |-> "onClipboardChanged", data |-> clipboardData])
                       /\ tick' = [tick EXCEPT !.pc = "send", !.values = values,
                                               !.sameValue = FALSE,
                                               !.vsRemote = vsRemote]
                       /\ pollTimers' = pollTimers
                  ELSE /\ pollTimers' = Reschedule(pollTimers)
                       /\ tick' = IdleTick
                       /\ UNCHANGED << lastSentClipboardData, outbound >>
          ELSE /\ lastClientClipboardItems' = cmp.client
               /\ pollTimers' = Reschedule(pollTimers)
               /\ tick' = IdleTick
               /\ UNCHANGED << lastSentClipboardData, outbound >>
    /\ UNCHANGED << browserVars, propagated, ffVars, hasFocus, localClipboard, platformWrites, mounted,
                    handlers, isClipboardApiSupported, lastReceivedClipboardData,
                    lastClipboardMonitorLoopError, reported, componentDestroyed,
                    runWhenFocusedQueue, writeLog, executed, lastRemoteSnapshot,
                    historyCounters >>

\* The awaited remoteDesktopService.onClipboardChanged returns.
SendResolves ==
    /\ tick.pc = "send"
    /\ pollTimers' = Reschedule(pollTimers)
    /\ tick' = IdleTick
    /\ UNCHANGED << browserVars, propagated, ffVars, hasFocus, localClipboard, platformWrites, mounted,
                    handlers, isClipboardApiSupported, lastClientClipboardItems,
                    lastReceivedClipboardData, lastSentClipboardData,
                    lastClipboardMonitorLoopError, reported, componentDestroyed,
                    runWhenFocusedQueue, outbound, writeLog, executed,
                    lastRemoteSnapshot, historyCounters >>

\* The awaited remoteDesktopService.onClipboardChanged throws.
SendRejects(err) ==
    /\ tick.pc = "send"
    /\ TickCatches(err)
    /\ UNCHANGED << browserVars, propagated, ffVars, hasFocus, localClipboard, platformWrites, mounted,
                    handlers, isClipboardApiSupported, lastClientClipboardItems,
                    lastReceivedClipboardData, lastSentClipboardData,
                    componentDestroyed, runWhenFocusedQueue, outbound, writeLog,
                    executed, remoteCount, lastRemoteSnapshot, gateCalls >>

\* ------------------------------------------------------------ Firefox mode
\* The retry budget a copy keystroke grants the wait for the remote data.
FF_REMOTE_CLIPBOARD_DATA_SET_MAX_RETRIES == 30

\* Keys the user can press; an event also carries its serial number n.
Keys == { [code |-> "KeyC", ctrlKey |-> TRUE],
          [code |-> "KeyV", ctrlKey |-> TRUE],
          [code |-> "KeyA", ctrlKey |-> FALSE] }

isCopyKeyboardEvent(evt) ==
    \/ evt.ctrlKey /\ evt.code = "KeyC"
    \/ evt.ctrlKey /\ evt.code = "KeyX"
    \/ evt.code = "Copy"
    \/ evt.code = "Cut"

isPasteKeyboardEvent(evt) ==
    \/ evt.ctrlKey /\ evt.code = "KeyV"
    \/ evt.code = "Paste"

\* The clipboardData.items of a paste event; file tells whether getAsFile()
\* yields a file.  NoClipboardData is an event whose clipboardData is null.
PasteItems ==
    { <<[mime |-> TextPlain, bytes |-> Abc, file |-> FALSE]>>,
      <<[mime |-> ImagePng, bytes |-> Png1, file |-> FALSE],
        [mime |-> ImagePng, bytes |-> Png2, file |-> TRUE],
        [mime |-> TextPlain, bytes |-> World, file |-> FALSE]>>,
      <<[mime |-> AppOctet, bytes |-> Png1, file |-> TRUE]>>,
      <<>> }
PasteEvents ==
    {[clipboardData |-> "null", items |-> <<>>]}
        \cup {[clipboardData |-> "DataTransfer", items |-> items] : items \in PasteItems}

\* Payloads the remote module reports in Firefox mode.
FFRemotePayloads ==
    { <<[mime |-> ImagePng, value |-> Bin(Png1)],
        [mime |-> TextPlain, value |-> Str(Hello)]>>,
      <<[mime |-> ImagePng, value |-> Bin(Png2)]>> }

\* The state the keyboard path reads or changes, as one record.  caller is
\* the chain on whose behalf ffWaitForRemoteClipboardDataSet runs, bad the
\* serial number of the key event whose sendKeyboardEvent call throws (0 if
\* none does), threw whether an exception is on its way out.
FFState == [data |-> ffRemoteClipboardData,
            retries |-> ffRemoteClipboardDataRetriesLeft,
            waitTimers |-> ffWaitTimers,
            textWrites |-> textWrites,
            sentKeys |-> sentKeys,
            hist |-> ffHist,
            caller |-> 0,
            bad |-> 0,
            threw |-> FALSE]

SetFFState(f) ==
    /\ ffRemoteClipboardData' = f.data
    /\ ffRemoteClipboardDataRetriesLeft' = f.retries
    /\ ffWaitTimers' = f.waitTimers
    /\ textWrites' = f.textWrites
    /\ sentKeys' = f.sentKeys
    /\ ffHist' = f.hist

\* The for loop of ffWaitForRemoteClipboardDataSet: the writeText calls after
\* it, given those before.  It stops at the first text/plain item and writes
\* it if its value is a string.
RECURSIVE WriteFirstTextPlain(_, _)
WriteFirstTextPlain(items, writes) ==
    IF items = <<>> THEN writes
    ELSE IF Head(items).mime = TextPlain
    THEN IF Head(items).value.t = "string"
         THEN Append(writes, Head(items).value.v)
         ELSE writes
    ELSE WriteFirstTextPlain(Tail(items), writes)

\* A variant of ffWaitForRemoteClipboardDataSet (below) that leaves the data
\* it has written in the holder.
ffWaitForRemoteClipboardDataSetKeeping(f) ==
    IF ~f.data.isNull
    THEN [f EXCEPT !.textWrites = WriteFirstTextPlain(f.data.data, @)]
    ELSE IF f.retries > 0
    THEN [f EXCEPT !.retries = @ - 1, !.waitTimers = @ + 1,
                   !.hist.waitOrder = Append(@, f.caller)]
    ELSE f

\* ffWaitForRemoteClipboardDataSet(): data in the holder is taken out and its
\* text written; without data one retry is spent on a new timer; without
\* retries the wait is given up.
ffWaitForRemoteClipboardDataSet(f) ==
    IF ~f.data.isNull
    THEN [f EXCEPT !.data = NoData,
                   !.textWrites = WriteFirstTextPlain(f.data.data, @)]
    ELSE IF f.retries > 0
    THEN [f EXCEPT !.retries = @ - 1, !.waitTimers = @ + 1,
                   !.hist.waitOrder = Append(@, f.caller)]
    ELSE f

browserHasClipboardAccess == navClipboard # "none"

\* keyboardEvent(evt): a copy keystroke on Firefox refills the retry budget
\* and starts a wait (a new chain, named by the event's serial number); the
\* event is then passed to sendKeyboardEvent, which may throw.  A throw is
\* followed up where the component's state depends on it, in the replay of
\* buffered events; on the direct path of captureKeys it changes nothing.
keyboardEvent(evt, f) ==
    LET waited ==
            IF isFirefox /\ browserHasClipboardAccess /\ isCopyKeyboardEvent(evt)
            THEN ffWaitForRemoteClipboardDataSet(
                    [f EXCEPT !.retries = FF_REMOTE_CLIPBOARD_DATA_SET_MAX_RETRIES,
                              !.caller = evt.n,
                              !.hist.chain = evt.n,
                              !.hist.firings = 0,
                              !.hist.arrived = ~f.data.isNull])
            ELSE f
    IN IF evt.n = f.bad
       THEN [waited EXCEPT !.sentKeys = Append(@, evt),
                           !.hist.failed = @ \cup {Len(waited.sentKeys) + 1},
                           !.threw = TRUE]
       ELSE [waited EXCEPT !.sentKeys = Append(@, evt)]

\* The for loop of ffSimulateDelayedKeyEvents; an exception leaves it.
RECURSIVE ReplayKeys(_, _)
ReplayKeys(events, f) ==
    IF events = <<>> \/ f.threw THEN f
    ELSE ReplayKeys(Tail(events), keyboardEvent(Head(events), f))

\* The serial numbers a replay of the buffer can fail at; 0 is no failure.
ReplayFailures == {0} \cup {ffDelayedKeyboardEvents[i].n :
                              i \in 1..Len(ffDelayedKeyboardEvents)}

\* A variant of ffSimulateDelayedKeyEvents (below) that ends postponement
\* before the replay, so that an exception of a replayed event leaves the
\* buffer filled with postponement off.
ffSimulateDelayedKeyEventsFlagFirst(bad, f) ==
    LET after == ReplayKeys(ffDelayedKeyboardEvents, [f EXCEPT !.bad = bad])
    IN /\ ffPostponeKeyboardEvents' = FALSE
       /\ IF after.threw
          THEN /\ SetFFState(after)
               /\ UNCHANGED ffDelayedKeyboardEvents
          ELSE /\ SetFFState([after EXCEPT !.hist.window = 0])
               /\ ffDelayedKeyboardEvents' = <<>>

\* ffSimulateDelayedKeyEvents() started in state f: the buffered events are
\* replayed in order, then the buffer is emptied and postponement ends.  An
\* exception of a replayed event skips both assignments.
ffSimulateDelayedKeyEvents(bad, f) ==
    LET after == ReplayKeys(ffDelayedKeyboardEvents, [f EXCEPT !.bad = bad])
    IN IF after.threw
       THEN /\ SetFFState(after)
            /\ UNCHANGED << ffDelayedKeyboardEvents, ffPostponeKeyboardEvents >>
       ELSE /\ SetFFState([after EXCEPT !.hist.window = 0])
            /\ ffDelayedKeyboardEvents' = <<>>
            /\ ffPostponeKeyboardEvents' = FALSE

\* ffOnRemoteClipboardChanged(data): the data is stored for the next copy
\* keystroke.
FFRemoteClipboardChanged(data) ==
    /\ handlers.remoteClipboardChanged = "ffOnRemoteClipboardChanged"
    /\ envEvents < MaxEnvEvents
    /\ envEvents' = envEvents + 1
    /\ ffRemoteClipboardData' = Ref(data)
    /\ ffHist' = [ffHist EXCEPT !.arrived = TRUE]
    /\ UNCHANGED << browserVars, propagated, stdVars, hasFocus, localClipboard, mounted,
                    handlers, isClipboardApiSupported, componentDestroyed,
                    outbound, ffRemoteClipboardDataRetriesLeft,
                    ffPostponeKeyboardEvents, ffDelayedKeyboardEvents,
                    ffWaitTimers, ffKeyTimers, pasteCallbacks, textWrites,
                    sentKeys, keyCount >>

\* ffOnRemoteReceivedFormatList(): the replay inside a try block whose catch
\* block logs the exception.
FFRemoteReceivedFormatList(bad) ==
    /\ handlers.remoteReceivedFormatList
    /\ envEvents < MaxEnvEvents
    /\ envEvents' = envEvents + 1
    /\ ffSimulateDelayedKeyEvents(bad, FFState)
    /\ UNCHANGED << browserVars, propagated, stdVars, hasFocus, localClipboard, mounted,
                    handlers, isClipboardApiSupported, componentDestroyed,
                    outbound, ffKeyTimers, pasteCallbacks, keyCount >>

\* captureKeys(evt) for a key pressed while the canvas captures input.
KeyEvent(key) ==
    /\ KeyListenersAdded
    /\ envEvents < MaxEnvEvents
    /\ envEvents' = envEvents + 1
    /\ keyCount' = keyCount + 1
    /\ LET evt == [code |-> key.code, ctrlKey |-> key.ctrlKey, n |-> keyCount + 1]
       IN IF ffPostponeKeyboardEvents
          THEN /\ ffDelayedKeyboardEvents' = Append(ffDelayedKeyboardEvents, evt)
               /\ UNCHANGED << ffPostponeKeyboardEvents, ffKeyTimers,
                               ffRemoteClipboardData,
                               ffRemoteClipboardDataRetriesLeft, ffWaitTimers,
                               textWrites, sentKeys, ffHist >>
          ELSE IF isFirefox /\ isPasteKeyboardEvent(evt)
          THEN /\ ffPostponeKeyboardEvents' = TRUE
               /\ ffDelayedKeyboardEvents' = <<evt>>
               /\ ffKeyTimers' = ffKeyTimers + 1
               /\ ffHist' = [ffHist EXCEPT !.keyOrder = Append(@, evt.n),
                                           !.window = evt.n]
               /\ UNCHANGED << ffRemoteClipboardData,
                               ffRemoteClipboardDataRetriesLeft, ffWaitTimers,
                               textWrites, sentKeys >>
          ELSE /\ SetFFState(keyboardEvent(evt, FFState))
               /\ UNCHANGED << ffPostponeKeyboardEvents, ffDelayedKeyboardEvents,
                               ffKeyTimers >>
    /\ UNCHANGED << browserVars, propagated, stdVars, hasFocus, localClipboard, mounted,
                    handlers, isClipboardApiSupported, componentDestroyed,
                    outbound, pasteCallbacks >>

\* The oldest timer set by a paste keystroke fires:
\* ffSimulateDelayedKeyEvents().
FFKeyTimerFires(bad) ==
    /\ ~InMountGap
    /\ ffKeyTimers > 0
    /\ ffKeyTimers' = ffKeyTimers - 1
    /\ LET f == [FFState EXCEPT !.hist.keyOrder = Tail(@)]
       IN /\ ffSimulateDelayedKeyEvents(bad, f)
          /\ propagated' =
                IF ReplayKeys(ffDelayedKeyboardEvents, [f EXCEPT !.bad = bad]).threw
                THEN propagated \cup {"ffSimulateDelayedKeyEvents"}
                ELSE propagated
    /\ UNCHANGED << browserVars, stdVars, hasFocus, localClipboard, mounted,
                    handlers, isClipboardApiSupported, componentDestroyed,
                    outbound, pasteCallbacks, keyCount, envEvents >>

\* The oldest retry timer fires: ffWaitForRemoteClipboardDataSet().
FFWaitTimerFires ==
    /\ ~InMountGap
    /\ ffWaitTimers > 0
    /\ LET chain == Head(ffHist.waitOrder)
       IN SetFFState(ffWaitForRemoteClipboardDataSet(
            [FFState EXCEPT !.waitTimers = @ - 1,
                            !.caller = chain,
                            !.hist.waitOrder = Tail(@),
                            !.hist.firings = IF chain = ffHist.chain
                                             THEN @ + 1 ELSE @]))
    /\ UNCHANGED << browserVars, propagated, stdVars, hasFocus, localClipboard, mounted,
                    handlers, isClipboardApiSupported, componentDestroyed,
                    outbound, ffPostponeKeyboardEvents, ffDelayedKeyboardEvents,
                    ffKeyTimers, pasteCallbacks, keyCount, envEvents >>

\* A variant of PasteLoop (below) without the break statements.
RECURSIVE PasteLoopNoBreak(_, _)
PasteLoopNoBreak(items, pending) ==
    IF items = <<>> THEN pending
    ELSE LET clipItem == Head(items)
             mime == clipItem.mime
         IN PasteLoopNoBreak(Tail(items),
                IF StartsWithText(mime)
                THEN Append(pending, [mime |-> mime, as |-> "string",
                                      bytes |-> clipItem.bytes])
                ELSE IF StartsWithImage(mime) /\ clipItem.file
                THEN Append(pending, [mime |-> mime, as |-> "file",
                                      bytes |-> clipItem.bytes])
                ELSE pending)

\* The for loop of ffOnPasteHandler: the callbacks pending after it, given
\* those before.  The first text item asks for its string and the first image
\* item with a file for its bytes, and either ends the loop.
RECURSIVE PasteLoop(_, _)
PasteLoop(items, pending) ==
    IF items = <<>> THEN pending
    ELSE LET clipItem == Head(items)
             mime == clipItem.mime
         IN IF StartsWithText(mime)
            THEN Append(pending, [mime |-> mime, as |-> "string",
                                  bytes |-> clipItem.bytes])
            ELSE IF StartsWithImage(mime) /\ clipItem.file
            THEN Append(pending, [mime |-> mime, as |-> "file",
                                  bytes |-> clipItem.bytes])
            ELSE PasteLoop(Tail(items), pending)

\* ffOnPasteHandler(evt): ignored outside Firefox.  The handler is bound in
\* the markup (onpaste), so it runs before, during and after onMount.
PasteEvent(evt) ==
    /\ envEvents < MaxEnvEvents
    /\ envEvents' = envEvents + 1
    /\ pasteCallbacks' =
          IF ~isFirefox \/ evt.clipboardData = "null" THEN pasteCallbacks
          ELSE PasteLoop(evt.items, pasteCallbacks)
    /\ UNCHANGED << browserVars, propagated, stdVars, hasFocus, localClipboard, mounted,
                    handlers, isClipboardApiSupported, componentDestroyed,
                    outbound, ffRemoteClipboardData,
                    ffRemoteClipboardDataRetriesLeft, ffPostponeKeyboardEvents,
                    ffDelayedKeyboardEvents, ffWaitTimers, ffKeyTimers,
                    textWrites, sentKeys, keyCount, ffHist >>

\* What a paste callback hands to the remote module: the clipboard data
\* created by the handler with the one entry the callback adds.
PastePayload(cb) ==
    IF cb.as = "string"
    THEN addText(NewClipboardData, cb.mime, Str(cb.bytes))
    ELSE addBinary(NewClipboardData, cb.mime, Bin(cb.bytes))

\* A pending getAsString callback or arrayBuffer() continuation runs.
PasteCallbackRuns(i) ==
    /\ ~InMountGap
    /\ i \in 1..Len(pasteCallbacks)
    /\ pasteCallbacks' = [j \in 1..(Len(pasteCallbacks) - 1) |->
                            IF j < i THEN pasteCallbacks[j] ELSE pasteCallbacks[j + 1]]
    /\ LET clipboardData == PastePayload(pasteCallbacks[i])
       IN outbound' = IF ~isEmpty(clipboardData)
                      THEN Append(outbound, [op |-> "onClipboardChanged",
                                             data |-> clipboardData])
                      ELSE outbound
    /\ UNCHANGED << browserVars, propagated, stdVars, hasFocus, localClipboard, mounted,
                    handlers, isClipboardApiSupported, componentDestroyed,
                    ffRemoteClipboardData, ffRemoteClipboardDataRetriesLeft,
                    ffPostponeKeyboardEvents, ffDelayedKeyboardEvents,
                    ffWaitTimers, ffKeyTimers, textWrites, sentKeys, keyCount,
                    ffHist, envEvents >>

\* ------------------------------------------------------ focus-gate harness
\* A caller hands an action of its own to runWhenWindowFocused.
HarnessActions == {"ok", "throw"}

GateCall(k) ==
    /\ gateCalls < MaxGateCalls
    /\ gateCalls' = gateCalls + 1
    /\ SetGateState(runWhenWindowFocused(
            [k |-> k, id |-> gateCalls + 1, data |-> NewClipboardData],
            hasFocus, GateState))
    /\ UNCHANGED << browserVars, propagated, ffVars, hasFocus, localClipboard, mounted, handlers,
                    isClipboardApiSupported, lastClientClipboardItems,
                    lastSentClipboardData, lastClipboardMonitorLoopError, reported,
                    componentDestroyed, pollTimers, tick, outbound, remoteCount,
                    lastRemoteSnapshot, envEvents >>

\* A caller hands runWhenWindowFocused an action that, when it runs, hands a
\* follow-up action to runWhenWindowFocused in turn.
GateNest ==
    /\ gateCalls < MaxGateCalls
    /\ gateCalls' = gateCalls + 1
    /\ SetGateState(runWhenWindowFocused(
            [k |-> "nest", id |-> gateCalls + 1, data |-> NewClipboardData],
            hasFocus, GateState))
    /\ UNCHANGED << browserVars, propagated, ffVars, hasFocus, localClipboard, mounted, handlers,
                    isClipboardApiSupported, lastClientClipboardItems,
                    lastSentClipboardData, lastClipboardMonitorLoopError, reported,
                    componentDestroyed, pollTimers, tick, outbound, remoteCount,
                    lastRemoteSnapshot, envEvents >>

\* A focus event reaches the window's listener while document.hasFocus()
\* answers false (the window lost focus again before the event was handled,
\* or the host page dispatched the event itself).
FocusEventUnfocused ==
    /\ ~hasFocus
    /\ handlers.focus
    /\ runWhenFocusedQueue # <<>>
    /\ SetGateState(focusEventHandler(GateState))
    /\ propagated' = IF focusEventHandler(GateState).threw
                     THEN propagated \cup {"focusEventHandler"}
                     ELSE propagated
    /\ UNCHANGED << browserVars, ffVars, hasFocus, localClipboard, mounted, handlers,
                    isClipboardApiSupported, lastClientClipboardItems,
                    lastSentClipboardData, lastClipboardMonitorLoopError, reported,
                    componentDestroyed, pollTimers, tick, outbound,
                    lastRemoteSnapshot, historyCounters >>

\* document.hasFocus() starts to answer true while no focus event has reached
\* the window's listener yet (the event is still to be dispatched, or focus
\* entered a nested frame, whose window receives the event).
FocusReported ==
    /\ ~InMountGap
    /\ ~hasFocus
    /\ hasFocus' = TRUE
    /\ UNCHANGED << browserVars, propagated, ffVars, localClipboard, platformWrites, mounted, handlers,
                    isClipboardApiSupported, lastClientClipboardItems,
                    lastReceivedClipboardData, lastSentClipboardData,
                    lastClipboardMonitorLoopError, reported, componentDestroyed,
                    runWhenFocusedQueue, pollTimers, tick, outbound, writeLog,
                    executed, lastRemoteSnapshot, historyCounters >>

\* The focus event reaches the window's listener after document.hasFocus()
\* started to answer true.
FocusEventHandled ==
    /\ hasFocus
    /\ handlers.focus
    /\ runWhenFocusedQueue # <<>>
    /\ SetGateState(focusEventHandler(GateState))
    /\ propagated' = IF focusEventHandler(GateState).threw
                     THEN propagated \cup {"focusEventHandler"}
                     ELSE propagated
    /\ UNCHANGED << browserVars, ffVars, hasFocus, localClipboard, mounted, handlers,
                    isClipboardApiSupported, lastClientClipboardItems,
                    lastSentClipboardData, lastClipboardMonitorLoopError, reported,
                    componentDestroyed, pollTimers, tick, outbound,
                    lastRemoteSnapshot, historyCounters >>

\* --------------------------------------------------------- specifications
\* Standard mode: the polling synchronisation of a capable browser.
NextStd ==
    \/ Mount
    \/ MountResumes
    \/ Destroy
    \/ FocusGained
    \/ FocusReported
    \/ FocusEventHandled
    \/ FocusEventUnfocused
    \/ FocusLost
    \/ \E data \in RemotePayloads : RemoteClipboardChanged(data)
    \/ ForceClipboardUpdate
    \/ \E item \in LocalItems \cup {<<>>} : LocalCopy(item)
    \/ \E lands \in BOOLEAN : PlatformWriteSettles(lands)
    \/ MonitorTimerFires
    \/ ClipboardReadResolves
    \/ \E err \in Errors : PlatformCallRejects(err)
    \/ KindResolves
    \/ SendResolves
    \/ \E err \in Thrown : SendRejects(err)

SpecStd == InitStd /\ [][NextStd]_vars

\* The focus gate alone, driven by a caller's own actions.
NextGate ==
    \/ Mount
    \/ MountResumes
    \/ Destroy
    \/ FocusGained
    \/ FocusLost
    \/ \E k \in HarnessActions : GateCall(k)

SpecGate == InitStd /\ [][NextGate]_vars

\* The focus gate with actions that call runWhenWindowFocused themselves.
NextDrain ==
    \/ Mount
    \/ MountResumes
    \/ Destroy
    \/ FocusGained
    \/ FocusLost
    \/ FocusEventUnfocused
    \/ \E k \in HarnessActions : GateCall(k)
    \/ GateNest

SpecDrain == InitStd /\ [][NextDrain]_vars

\* The receipt of remote updates in standard mode, with document.hasFocus()
\* and the dispatch of the window's focus event as separate steps.
NextOrder ==
    \/ Mount
    \/ MountResumes
    \/ Destroy
    \/ FocusGained
    \/ FocusReported
    \/ FocusEventHandled
    \/ FocusEventUnfocused
    \/ FocusLost
    \/ \E data \in RemotePayloads : RemoteClipboardChanged(data)
    \/ \E lands \in BOOLEAN : PlatformWriteSettles(lands)

SpecOrder == InitStd /\ [][NextOrder]_vars

\* The snapshots handed to the building of the outbound clipboard data: the
\* keys in insertion order, each kind at most once, and a value for each.
BuildValues == {Undefined, Null, Str(Hello), Bin(Png1)}
BuildOrders ==
    {<<>>} \cup {<<a>> : a \in Kinds}
           \cup {o \in Kinds \X Kinds : o[1] # o[2]}
           \cup {o \in Kinds \X Kinds \X Kinds :
                    o[1] # o[2] /\ o[1] # o[3] /\ o[2] # o[3]}
KeysOf(order) == {order[i] : i \in 1..Len(order)}
BuildSnapshots(order) ==
    {values \in [Kinds -> BuildValues] :
        \A k \in Kinds \ KeysOf(order) : values[k] = Undefined}

\* A caller builds the outbound clipboard data of a snapshot of its own; the
\* call and its result are kept as the last harness call.
BuildCall(order, values) ==
    /\ gateCalls < MaxGateCalls
    /\ gateCalls' = gateCalls + 1
    /\ executed' = <<[id |-> gateCalls + 1, from |-> "build", order |-> order,
                     values |-> values,
                     data |-> BuildClipboardData(order, values)]>>
    /\ UNCHANGED << browserVars, propagated, ffVars, hasFocus, localClipboard,
                    platformWrites, mounted, handlers, isClipboardApiSupported,
                    lastClientClipboardItems, lastReceivedClipboardData,
                    lastSentClipboardData, lastClipboardMonitorLoopError,
                    reported, componentDestroyed, runWhenFocusedQueue,
                    pollTimers, tick, outbound, writeLog, remoteCount,
                    lastRemoteSnapshot, envEvents >>

\* The building of the outbound clipboard data alone.
NextBuild ==
    \E order \in BuildOrders : \E values \in BuildSnapshots(order) :
        BuildCall(order, values)

SpecBuild == InitStd /\ [][NextBuild]_vars

\* The poll loop of standard mode and all that acts on it, with the event
\* loop running: a pending timer fires and an awaited platform call or
\* remote call settles.
NextPoll ==
    \/ Mount
    \/ MountResumes
    \/ Destroy
    \/ FocusGained
    \/ FocusLost
    \/ \E data \in ConvertiblePayloads : RemoteClipboardChanged(data)
    \/ \E item \in LocalItems \cup {<<>>} : LocalCopy(item)
    \/ \E lands \in BOOLEAN : PlatformWriteSettles(lands)
    \/ MonitorTimerFires
    \/ ClipboardReadResolves
    \/ \E err \in Errors : PlatformCallRejects(err)
    \/ KindResolves
    \/ SendResolves
    \/ \E err \in Thrown : SendRejects(err)

SpecPollLive ==
    /\ InitStd /\ [][NextPoll]_vars
    /\ WF_vars(MonitorTimerFires)
    /\ WF_vars(ClipboardReadResolves)
    /\ WF_vars(KindResolves)
    /\ WF_vars(SendResolves)

\* Firefox: the event-driven synchronisation.
InitFF ==
    /\ isFirefox = TRUE
    /\ navClipboard \in {"none", "textOnly", "full"}
    /\ InitComponent

NextFF ==
    \/ Mount
    \/ MountResumes
    \/ Destroy
    \/ FocusGained
    \/ FocusLost
    \/ \E data \in FFRemotePayloads : FFRemoteClipboardChanged(data)
    \/ \E bad \in ReplayFailures : FFRemoteReceivedFormatList(bad)
    \/ ForceClipboardUpdate
    \/ \E key \in Keys : KeyEvent(key)
    \/ \E bad \in ReplayFailures : FFKeyTimerFires(bad)
    \/ FFWaitTimerFires
    \/ \E evt \in PasteEvents : PasteEvent(evt)
    \/ \E i \in 1..Len(pasteCallbacks) : PasteCallbackRuns(i)

SpecFF == InitFF /\ [][NextFF]_vars

\* Every browser and every handler of the clipboard subsystem.
InitAll ==
    /\ isFirefox \in BOOLEAN
    /\ navClipboard \in {"none", "textOnly", "full"}
    /\ InitComponent

\* The handlers of both modes, each listed once; the focus event is
\* dispatched in the step in which document.hasFocus() turns true.
NextAll ==
    \/ Mount
    \/ MountResumes
    \/ Destroy
    \/ FocusGained
    \/ FocusLost
    \/ ForceClipboardUpdate
    \/ \E data \in RemotePayloads : RemoteClipboardChanged(data)
    \/ \E item \in LocalItems \cup {<<>>} : LocalCopy(item)
    \/ \E lands \in BOOLEAN : PlatformWriteSettles(lands)
    \/ MonitorTimerFires
    \/ ClipboardReadResolves
    \/ \E err \in Errors : PlatformCallRejects(err)
    \/ KindResolves
    \/ SendResolves
    \/ \E err \in Thrown : SendRejects(err)
    \/ \E data \in FFRemotePayloads : FFRemoteClipboardChanged(data)
    \/ \E bad \in ReplayFailures : FFRemoteReceivedFormatList(bad)
    \/ \E key \in Keys : KeyEvent(key)
    \/ \E bad \in ReplayFailures : FFKeyTimerFires(bad)
    \/ FFWaitTimerFires
    \/ \E evt \in PasteEvents : PasteEvent(evt)
    \/ \E i \in 1..Len(pasteCallbacks) : PasteCallbackRuns(i)

SpecAll == InitAll /\ [][NextAll]_vars

\* ================================================================= claims
\* What a completed read of item yields for every kind of it.
Observed(item) ==
    [k \in Kinds |->
        IF \E i \in 1..Len(item) : item[i].mime = k
        THEN DecodeBlob(k, (CHOOSE r \in {item[i] : i \in 1..Len(item)} : r.mime = k).bytes)
        ELSE Undefined]

KindsOf(item) == {item[i].mime : i \in 1..Len(item)}

\* ---- C1
\* C1: anti-echo.  A poll tick never calls the outbound onClipboardChanged
\* when every kind whose newly read value differs from the client snapshot
\* equals the value most recently received from the remote side for that
\* kind: a tick that has made the call compared some kind whose value
\* differed from the client snapshot and from the newest remote update.
C1_NoEchoOfNewestRemote ==
    tick.pc = "send" => tick.vsRemote

\* ---- C2
\* The step in which a tick finishes its loop over the kinds of the item.
TickCompletesLoop == KindResolves /\ tick.idx = Len(tick.item)

\* C2: a genuine local change is notified exactly once.  When a tick has
\* read every kind of an item and some kind differs from both the client
\* snapshot and the last received value, that step makes exactly one
\* outbound onClipboardChanged call carrying the observed values, the payload
\* becomes lastSentClipboardData and the observed values become the client
\* snapshot; a tick that observes what the client snapshot already holds
\* makes no call; and no other step of a tick makes an outbound call.
C2_NotifiedOnce ==
    [][ /\ TickCompletesLoop =>
            LET V == Observed(tick.item)
                changed == \E k \in KindsOf(tick.item) :
                    /\ ~is_equal(StartsWithText(k), lastClientClipboardItems[k], V[k])
                    /\ ~is_equal(StartsWithText(k), lastReceivedClipboardData[k], V[k])
                known == \A k \in KindsOf(tick.item) :
                    is_equal(StartsWithText(k), lastClientClipboardItems[k], V[k])
                payload == BuildClipboardData(TypesOf(tick.item), V)
            IN /\ changed =>
                    /\ outbound' = Append(outbound,
                            [op |-> "onClipboardChanged", data |-> payload])
                    /\ lastSentClipboardData' = Ref(payload)
                    /\ lastClientClipboardItems' = V
               /\ known => outbound' = outbound
        /\ outbound' # outbound => TickCompletesLoop \/ ForceClipboardUpdate
      ]_vars

\* The remote "hello" was received, the local "world" was sent once and is
\* the last-sent payload, and a later tick is reading "world" again.
C2_Witness ==
    /\ tick.pc = "kind"
    /\ tick.item = <<[mime |-> TextPlain, bytes |-> World]>>
    /\ lastReceivedClipboardData[TextPlain] = Str(Hello)
    /\ lastClientClipboardItems[TextPlain] = Str(World)
    /\ outbound = <<[op |-> "onClipboardChanged",
                     data |-> <<[mime |-> TextPlain, value |-> Str(World)]>>]>>
    /\ lastSentClipboardData = Ref(<<[mime |-> TextPlain, value |-> Str(World)]>>)

\* ---- C3
\* C3: the outbound onClipboardChanged is never called with an empty
\* clipboard data, whether by a poll tick, a paste callback or a force-update
\* resend, and lastSentClipboardData never refers to an empty one.
C3_NeverEmpty ==
    /\ \A i \in 1..Len(outbound) :
          outbound[i].op = "onClipboardChanged" => ~isEmpty(outbound[i].data)
    /\ ~lastSentClipboardData.isNull => ~isEmpty(lastSentClipboardData.data)

\* A force update was answered with the explicit empty notification before
\* anything was sent, then a tick sent "world" and a second force update
\* re-sent it.
C3_Witness ==
    /\ Len(outbound) = 3
    /\ outbound[1].op = "onClipboardChangedEmpty"
    /\ outbound[2].op = "onClipboardChanged"
    /\ outbound[3] = outbound[2]
    /\ tick.pc = "idle"
    /\ lastSentClipboardData = Ref(outbound[3].data)

\* ---- C4
\* The ids of the actions in a queue, as entries of the executed history.
DrainOf(queue) == [i \in 1..Len(queue) |-> [id |-> queue[i].id, from |-> "drain"]]

\* C4: the actions queued while the window lacked focus execute in arrival
\* order, each exactly once, during the next focus-gain event: the event
\* handled by focusEventHandler runs exactly the queued actions, in queue
\* order, and leaves none behind.
C4_FifoExactlyOnce ==
    [][ FocusGained /\ handlers.focus =>
            /\ executed' = executed \o DrainOf(runWhenFocusedQueue)
            /\ runWhenFocusedQueue' = <<>> ]_vars

\* ---- C5
\* C5: runWhenWindowFocused(action) runs the action once within the call and
\* leaves the queue unchanged if the window has focus, and otherwise appends
\* it at the tail of the queue without running it.
C5_RunOrQueue ==
    [][ \A k \in HarnessActions :
            GateCall(k) =>
                LET fn == [k |-> k, id |-> gateCalls + 1, data |-> NewClipboardData]
                IN IF hasFocus
                   THEN /\ executed' = Append(executed, [id |-> fn.id, from |-> "call"])
                        /\ runWhenFocusedQueue' = runWhenFocusedQueue
                   ELSE /\ executed' = executed
                        /\ runWhenFocusedQueue' = Append(runWhenFocusedQueue, fn) ]_vars

\* One action was run by its call while the window had focus, and two later
\* ones wait in the queue in the order of their calls.
C5_Witness ==
    /\ executed = <<[id |-> 1, from |-> "call"]>>
    /\ Len(runWhenFocusedQueue) = 2
    /\ runWhenFocusedQueue[1].id = 2
    /\ runWhenFocusedQueue[2].id = 3
    /\ ~hasFocus

\* ---- C6
\* C6: an exception thrown by a queued action does not halt the drain: after
\* a focus-gain event handled by focusEventHandler every action that was
\* queued has been run and none, the failing one included, is left queued.
C6_DrainSurvivesException ==
    [][ FocusGained /\ handlers.focus =>
            /\ \A i \in 1..Len(runWhenFocusedQueue) :
                  \E j \in 1..Len(executed') :
                      executed'[j].id = runWhenFocusedQueue[i].id
            /\ \A j \in 1..Len(runWhenFocusedQueue') :
                  \A i \in 1..Len(runWhenFocusedQueue) :
                      runWhenFocusedQueue[i].k = "throw"
                          => runWhenFocusedQueue'[j].id # runWhenFocusedQueue[i].id
        ]_vars

\* ---- C7
\* The remote updates written so far, and those waiting in the queue.
WrittenIds == {writeLog[i].id : i \in 1..Len(writeLog)}
QueuedIds == {runWhenFocusedQueue[i].id : i \in 1..Len(runWhenFocusedQueue)}

\* C7 as stated: remote updates are never dropped; once the window has focus
\* again a write has been issued for every update received.
C7_WrittenOnceFocused ==
    hasFocus => \A id \in 1..remoteCount : id \in WrittenIds

\* A focus event reaches focusEventHandler.
FocusEventRuns ==
    handlers.focus /\ (FocusGained \/ FocusEventHandled \/ FocusEventUnfocused)

\* The writes a drain of queue issues, in the order of the queue.
DrainWrites(queue) ==
    [i \in 1..Len(queue) |-> [id |-> queue[i].id, from |-> "drain"]]

\* C7 as amended: no update is written twice or both written and queued.  An
\* update whose ClipboardItem cannot be built is neither written nor queued;
\* any other update is written at once when document.hasFocus() is true at
\* its receipt and appended to the queue otherwise.  A focus event handled by
\* focusEventHandler, whatever document.hasFocus() answers at that moment,
\* writes every queued update, in arrival order, and empties the queue; no
\* other step writes or removes a queued update, so document.hasFocus()
\* turning true does not write by itself.  Once the
\* component is destroyed the queue is never shortened again: the updates
\* queued at that moment are never written.
C7_WrittenQueuedOrDropped ==
    /\ [](/\ WrittenIds \cap QueuedIds = {}
          /\ Len(writeLog) = Cardinality(WrittenIds)
          /\ (WrittenIds \cup QueuedIds) \subseteq 1..remoteCount)
    /\ [][ /\ \A data \in RemotePayloads :
                RemoteClipboardChanged(data) =>
                    IF ClipboardItemThrows(clipboardDataToRecord(data))
                    THEN /\ writeLog' = writeLog
                         /\ runWhenFocusedQueue' = runWhenFocusedQueue
                    ELSE IF hasFocus
                    THEN /\ writeLog' = Append(writeLog,
                                [id |-> remoteCount + 1, from |-> "call"])
                         /\ runWhenFocusedQueue' = runWhenFocusedQueue
                    ELSE /\ writeLog' = writeLog
                         /\ runWhenFocusedQueue' = Append(runWhenFocusedQueue,
                                [k |-> "write", id |-> remoteCount + 1,
                                 data |-> data])
           /\ FocusEventRuns =>
                /\ runWhenFocusedQueue' = <<>>
                /\ writeLog' = writeLog \o DrainWrites(runWhenFocusedQueue)
           /\ (writeLog' # writeLog \/ runWhenFocusedQueue' # runWhenFocusedQueue) =>
                \/ remoteCount' = remoteCount + 1
                \/ FocusEventRuns
           /\ componentDestroyed =>
                /\ Len(runWhenFocusedQueue') >= Len(runWhenFocusedQueue)
                /\ SubSeq(runWhenFocusedQueue', 1, Len(runWhenFocusedQueue))
                      = runWhenFocusedQueue ]_vars

\* The first update had no item and was dropped; the next two were received
\* without focus and written, in arrival order, by focusEventHandler.
C7_Witness ==
    /\ remoteCount = 3
    /\ writeLog = <<[id |-> 2, from |-> "drain"], [id |-> 3, from |-> "drain"]>>
    /\ runWhenFocusedQueue = <<>>
    /\ hasFocus
    /\ ~componentDestroyed

\* ---- C8
\* C8: the last-received snapshot is recorded on receipt: when
\* onRemoteClipboardChanged(data) returns, lastReceivedClipboardData is the
\* snapshot of data, with or without focus.
C8_RecordedOnReceipt ==
    [][ \A data \in RemotePayloads :
            RemoteClipboardChanged(data) =>
                lastReceivedClipboardData' = clipboardDataToClipboardItemsRecord(data)
      ]_vars

\* ---- C9
\* The step that ends a tick's work on the client snapshot: the tick returns,
\* is caught, or reaches the awaited outbound call.
TickSettles == tick.pc \in {"read", "kind"} /\ tick'.pc \in {"idle", "send"}

\* C9 as stated: the client snapshot is never partially updated; a tick
\* leaves it as it found it or replaces it with the newly observed values.
C9_AllOrNothing ==
    [][ TickSettles =>
            \/ lastClientClipboardItems' = tick.before
            \/ lastClientClipboardItems' = Observed(tick.item) ]_vars

\* C9 as amended: a step changes the client snapshot only within a tick, and
\* either replaces it with the newly observed values of all kinds of the item
\* (the tick flagged a change and has read every kind) or sets the one key of
\* the kind just compared to the last received value for that kind, which
\* equals the value just read; every other key is untouched.  A tick that is
\* caught part-way keeps the keys it has adopted so far.
C9_ReplaceOrAdopt ==
    [][ /\ lastClientClipboardItems' # lastClientClipboardItems =>
            /\ KindResolves
            /\ LET kind == tick.item[tick.idx].mime
                   value == DecodeBlob(kind, tick.item[tick.idx].bytes)
               IN \/ /\ tick.idx = Len(tick.item)
                     /\ tick'.pc = "send"
                     /\ lastClientClipboardItems' = Observed(tick.item)
                  \/ /\ is_equal(StartsWithText(kind),
                                 lastReceivedClipboardData[kind], value)
                     /\ lastClientClipboardItems' =
                          [lastClientClipboardItems EXCEPT
                              ![kind] = lastReceivedClipboardData[kind]]
        /\ TickSettles =>
              \/ lastClientClipboardItems' = Observed(tick.item)
              \/ \A k \in Kinds :
                    \/ lastClientClipboardItems'[k] = tick.before[k]
                    \/ /\ k \in KindsOf(tick.item)
                       /\ is_equal(StartsWithText(k), lastClientClipboardItems'[k],
                                   Observed(tick.item)[k])
      ]_vars

\* A tick over an item of two kinds has adopted the remote text for the first
\* kind and has not yet compared the second.
C9_Witness ==
    /\ tick.pc = "kind"
    /\ tick.idx = 2
    /\ tick.before[TextPlain] = Undefined
    /\ lastClientClipboardItems[TextPlain] = Str(Hello)
    /\ lastClientClipboardItems[ImagePng] = Undefined
    /\ tick.sameValue

\* ---- C10
\* C10: the pending queue is shortened only by the focus-gain handler: every
\* step leaves the queue as it is or appends one action at its tail, unless
\* it is a focus-gain event handled by focusEventHandler, which removes
\* actions from the head.
C10_OnlyFocusHandlerShortens ==
    [][ \/ runWhenFocusedQueue' = runWhenFocusedQueue
        \/ /\ Len(runWhenFocusedQueue') = Len(runWhenFocusedQueue) + 1
           /\ SubSeq(runWhenFocusedQueue', 1, Len(runWhenFocusedQueue))
                = runWhenFocusedQueue
        \/ /\ FocusGained
           /\ handlers.focus
           /\ Len(runWhenFocusedQueue') < Len(runWhenFocusedQueue)
           /\ runWhenFocusedQueue' =
                SubSeq(runWhenFocusedQueue,
                       Len(runWhenFocusedQueue) - Len(runWhenFocusedQueue') + 1,
                       Len(runWhenFocusedQueue)) ]_vars

\* The component was destroyed with one update still queued, after an earlier
\* update had been removed from the queue and written by the focus handler.
C10_Witness ==
    /\ componentDestroyed
    /\ writeLog = <<[id |-> 1, from |-> "drain"]>>
    /\ Len(runWhenFocusedQueue) = 1
    /\ runWhenFocusedQueue[1].id = 2

\* ---- C11
\* The onMonitorClipboard invocations in flight: 0 or 1 in this model, in
\* which a timer fires only while no invocation is in flight; C11 shows that
\* no timer is ever left waiting for that.
TicksInFlight == IF tick.pc = "idle" THEN 0 ELSE 1

\* C11: poll ticks never overlap: the pending poll timers and the tick in
\* flight are at most one together, so a timer never fires, and a clipboard
\* read never starts, while a tick is in flight.
C11_NoOverlap ==
    pollTimers + TicksInFlight <= 1

\* A tick was caught with an error, its successor has fired and is reading
\* the kinds of an item, and no timer is pending.
C11_Witness ==
    /\ tick.pc = "kind"
    /\ pollTimers = 0
    /\ lastClipboardMonitorLoopError # NoError

\* ---- C12
\* C12: teardown gates all self-rescheduling: once the component is destroyed
\* no timer callback schedules a successor, so the firing of a poll timer or
\* of a retry-wait timer leaves fewer timers of its kind pending than before,
\* and no other step of a tick adds a poll timer.
C12_NoSuccessorAfterTeardown ==
    [][ componentDestroyed =>
            /\ pollTimers' <= pollTimers
            /\ MonitorTimerFires => pollTimers' < pollTimers
            /\ FFWaitTimerFires => ffWaitTimers' < ffWaitTimers ]_vars

\* ---- C13
\* C13: a clipboard read that resolves after teardown is ignored: a tick
\* whose read resolved when the component was already destroyed changes
\* neither lastClientClipboardItems nor lastSentClipboardData and makes no
\* outbound call.
C13_LateReadIgnored ==
    [][ tick.lateRead /\ KindResolves =>
            /\ lastClientClipboardItems' = lastClientClipboardItems
            /\ lastSentClipboardData' = lastSentClipboardData
            /\ outbound' = outbound ]_vars

\* ---- C14
\* C14: a force-update request makes exactly one outbound call,
\* onClipboardChanged with the last-sent payload if there is one and
\* onClipboardChangedEmpty otherwise; an exception of that call does not
\* leave the handler; and none of the three snapshots changes.
C14_ForceUpdateOneCall ==
    [][ ForceClipboardUpdate =>
            /\ outbound' = Append(outbound,
                  IF lastSentClipboardData.isNull
                  THEN [op |-> "onClipboardChangedEmpty", data |-> NewClipboardData]
                  ELSE [op |-> "onClipboardChanged",
                        data |-> lastSentClipboardData.data])
            /\ propagated' = propagated
            /\ lastClientClipboardItems' = lastClientClipboardItems
            /\ lastReceivedClipboardData' = lastReceivedClipboardData
            /\ lastSentClipboardData' = lastSentClipboardData ]_vars

\* In standard mode a tick sent a payload and a force update re-sent it.
C14_Witness ==
    /\ ~isFirefox
    /\ Len(outbound) = 2
    /\ outbound[1].op = "onClipboardChanged"
    /\ outbound[2] = outbound[1]
    /\ tick.pc = "idle"
    /\ envEvents = 2

\* ---- C15
\* The positions of the onClipboardChanged calls in the outbound history.
SentAt == {i \in 1..Len(outbound) : outbound[i].op = "onClipboardChanged"}

\* C15: lastSentClipboardData holds the most recently transmitted payload:
\* once an outbound onClipboardChanged was made, in either mode,
\* lastSentClipboardData refers to the payload of the last one.
C15_LastSentIsLatest ==
    SentAt # {} =>
        lastSentClipboardData =
            Ref(outbound[CHOOSE i \in SentAt : \A j \in SentAt : j <= i].data)

\* ---- C16
\* The three strategies initClipboard selects among, as the state they leave.
StandardMode ==
    /\ ~isFirefox
    /\ isClipboardApiSupported
    /\ handlers.remoteClipboardChanged = "onRemoteClipboardChanged"
    /\ ~handlers.remoteReceivedFormatList
DegradedMode ==
    /\ isFirefox
    /\ ~isClipboardApiSupported
    /\ handlers.remoteClipboardChanged = "ffOnRemoteClipboardChanged"
    /\ handlers.remoteReceivedFormatList
    /\ pollTimers + TicksInFlight = 0
UnsupportedMode ==
    /\ ~isFirefox
    /\ ~isClipboardApiSupported
    /\ handlers.remoteClipboardChanged = "none"
    /\ ~handlers.forceClipboardUpdate
    /\ ~handlers.remoteReceivedFormatList
    /\ pollTimers + TicksInFlight = 0

\* C16: initialization selects exactly one strategy and the choice is
\* immutable: once mounted the component is in standard, degraded or
\* unsupported mode, the poll loop exists only in standard mode, and no later
\* step changes isFirefox, isClipboardApiSupported or the registered
\* remote-clipboard-changed handler.
C16_OneModeForLife ==
    [][ /\ mounted' => StandardMode' \/ DegradedMode' \/ UnsupportedMode'
        /\ ~mounted' => pollTimers' + TicksInFlight' = 0
        /\ mounted =>
              /\ isFirefox' = isFirefox
              /\ isClipboardApiSupported' = isClipboardApiSupported
              /\ handlers'.remoteClipboardChanged = handlers.remoteClipboardChanged
      ]_vars

\* A Firefox that has the whole asynchronous Clipboard API runs in degraded
\* mode: a remote payload is stored in the holder and nothing polls.
C16_Witness ==
    /\ isFirefox
    /\ navClipboard = "full"
    /\ mounted
    /\ ~ffRemoteClipboardData.isNull
    /\ pollTimers = 0
    /\ componentDestroyed

\* ---- C17
\* The paste event of the scenario: one text/plain item "abc".
AbcItems == <<[mime |-> TextPlain, bytes |-> Abc, file |-> FALSE]>>
AbcCallback == [mime |-> TextPlain, as |-> "string", bytes |-> Abc]
AbcCall == [op |-> "onClipboardChanged",
            data |-> <<[mime |-> TextPlain, value |-> Str(Abc)]>>]
DegradedHandlers(h) ==
    /\ h.remoteClipboardChanged = "ffOnRemoteClipboardChanged"
    /\ h.remoteReceivedFormatList

\* C17 as stated: on every browser lacking clipboard.read / clipboard.write
\* the degraded handlers are registered and a paste event carrying one
\* text/plain item "abc" asks for the string that is then sent.
C17_DegradedWithoutReadWrite ==
    [][ navClipboard # "full" =>
            /\ mounted' => DegradedHandlers(handlers')
            /\ \A evt \in PasteEvents :
                  PasteEvent(evt) /\ evt.items = AbcItems =>
                      pasteCallbacks' = Append(pasteCallbacks, AbcCallback) ]_vars

\* C17 as amended: degraded mode is selected by the browser's identity: on
\* Firefox, with or without clipboard.read / clipboard.write, the degraded
\* handlers are registered and a paste event carrying one text/plain item
\* "abc" leaves one callback pending, which when run makes exactly one
\* outbound onClipboardChanged call with the single entry text/plain "abc";
\* on any other browser the degraded handlers are never registered and a
\* paste event leaves no callback pending.
C17_DegradedOnFirefox ==
    [][ /\ mounted' => (DegradedHandlers(handlers') <=> isFirefox)
        /\ ~isFirefox => pasteCallbacks' = <<>>
        /\ \A evt \in PasteEvents :
              isFirefox /\ evt.items = AbcItems /\ PasteEvent(evt) =>
                  /\ pasteCallbacks' = Append(pasteCallbacks, AbcCallback)
                  /\ outbound' = outbound
        /\ \A i \in 1..Len(pasteCallbacks) :
              pasteCallbacks[i] = AbcCallback /\ PasteCallbackRuns(i) =>
                  /\ outbound' = Append(outbound, AbcCall)
                  /\ Len(pasteCallbacks') = Len(pasteCallbacks) - 1 ]_vars

\* On a Firefox without any Clipboard API "abc" was pasted and sent.
C17_Witness ==
    /\ isFirefox
    /\ navClipboard = "none"
    /\ DegradedHandlers(handlers)
    /\ outbound = <<AbcCall>>
    /\ pasteCallbacks = <<>>

\* ---- C18
\* C18: in unsupported mode (not Firefox, no clipboard.read / write) every
\* clipboard operation is a no-op: no platform read or write is made, no
\* outbound call, and the snapshots, the pending queue and the Firefox holder
\* stay as initialised, whatever keys, pastes, focus events and timers occur.
C18_UnsupportedNoOps ==
    ~isFirefox /\ navClipboard # "full" =>
        /\ tick = IdleTick
        /\ pollTimers = 0
        /\ platformWrites = <<>>
        /\ writeLog = <<>>
        /\ textWrites = <<>>
        /\ outbound = <<>>
        /\ lastClientClipboardItems = EmptyRecord
        /\ lastReceivedClipboardData = EmptyRecord
        /\ lastSentClipboardData = NoData
        /\ runWhenFocusedQueue = <<>>
        /\ ffRemoteClipboardData = NoData
        /\ ffWaitTimers = 0
        /\ pasteCallbacks = <<>>

\* In unsupported mode a copy and a paste keystroke went to the remote
\* session and a paste event was ignored.
C18_Witness ==
    /\ ~isFirefox
    /\ navClipboard = "textOnly"
    /\ mounted
    /\ Len(sentKeys) = 2
    /\ sentKeys[1].code = "KeyC"
    /\ sentKeys[2].code = "KeyV"
    /\ envEvents = 3
    /\ hasFocus

\* ---- C19
\* C19: in degraded mode a paste event forwards at most one item: the event
\* itself makes no outbound call and leaves at most one more callback
\* pending, and a callback, when run, is no longer pending and makes at most
\* one outbound onClipboardChanged call, whose data has exactly one entry, of
\* the callback's MIME type.
C19_AtMostOneItem ==
    [][ /\ \A evt \in PasteEvents :
              PasteEvent(evt) =>
                  /\ outbound' = outbound
                  /\ \/ pasteCallbacks' = pasteCallbacks
                     \/ /\ Len(pasteCallbacks') = Len(pasteCallbacks) + 1
                        /\ SubSeq(pasteCallbacks', 1, Len(pasteCallbacks))
                             = pasteCallbacks
        /\ \A i \in 1..Len(pasteCallbacks) :
              PasteCallbackRuns(i) =>
                  /\ Len(pasteCallbacks') = Len(pasteCallbacks) - 1
                  /\ \/ outbound' = outbound
                     \/ /\ Len(outbound') = Len(outbound) + 1
                        /\ SubSeq(outbound', 1, Len(outbound)) = outbound
                        /\ outbound'[Len(outbound')].op = "onClipboardChanged"
                        /\ Len(outbound'[Len(outbound')].data) = 1
                        /\ outbound'[Len(outbound')].data[1].mime
                             = pasteCallbacks[i].mime ]_vars

\* A paste event with three image and text items resulted in one outbound
\* call with one entry, and nothing is pending.
C19_Witness ==
    /\ isFirefox
    /\ Len(outbound) = 1
    /\ outbound[1].op = "onClipboardChanged"
    /\ outbound[1].data = <<[mime |-> ImagePng, value |-> Bin(Png2)]>>
    /\ pasteCallbacks = <<>>
    /\ envEvents = 1

\* ---- C20
\* The positions of the text items of a paste event's payload.
TextItemsAt(items) == {i \in 1..Len(items) : StartsWithText(items[i].mime)}

\* C20: in degraded mode a paste event prefers text over image whatever the
\* order of the items: if the payload holds a text item, the callback left
\* pending is for the first text item; an image item is asked for its bytes
\* only if the payload holds no text item.
C20_TextPreferred ==
    [][ \A evt \in PasteEvents :
            PasteEvent(evt) /\ isFirefox /\ evt.clipboardData # "null" =>
                IF TextItemsAt(evt.items) # {}
                THEN LET first == CHOOSE i \in TextItemsAt(evt.items) :
                                      \A j \in TextItemsAt(evt.items) : i <= j
                     IN pasteCallbacks' =
                          Append(pasteCallbacks,
                                 [mime |-> evt.items[first].mime, as |-> "string",
                                  bytes |-> evt.items[first].bytes])
                ELSE \A i \in 1..Len(pasteCallbacks') :
                        i > Len(pasteCallbacks) => pasteCallbacks'[i].as = "file"
      ]_vars

\* The newest retry-wait chain has no timer pending any more.
ChainEnded ==
    /\ ffHist.chain # 0
    /\ \A i \in 1..Len(ffHist.waitOrder) : ffHist.waitOrder[i] # ffHist.chain

\* C21: the retry-wait started by a copy/cut key event terminates.  Its
\* timers never fire more than 30 times; once it has ended without data ever
\* in the holder since its start, its timers have fired exactly 30 times and
\* no retry timer is pending; a firing that finds data takes it out of the
\* holder, leaves the budget as it is and schedules no timer; a firing that
\* finds none performs no platform write.
C21_RetryWaitTerminates ==
    [][ /\ ffHist'.firings <= FF_REMOTE_CLIPBOARD_DATA_SET_MAX_RETRIES
        /\ (ChainEnded' /\ ~ffHist'.arrived) =>
              /\ ffHist'.firings = FF_REMOTE_CLIPBOARD_DATA_SET_MAX_RETRIES
              /\ ffWaitTimers' = 0
        /\ (FFWaitTimerFires /\ ~ffRemoteClipboardData.isNull) =>
              /\ ffRemoteClipboardData' = NoData
              /\ ffWaitTimers' = ffWaitTimers - 1
              /\ ffRemoteClipboardDataRetriesLeft' = ffRemoteClipboardDataRetriesLeft
        /\ (FFWaitTimerFires /\ ffRemoteClipboardData.isNull) =>
              textWrites' = textWrites ]_vars

\* C22: at most one retry-wait chain is active.  The firing of a timer set
\* on behalf of an earlier chain than the newest one is a no-op: it does not
\* decrement the retry budget and schedules no timer.
C22_StaleRetryTimerIsNoOp ==
    [][ (FFWaitTimerFires /\ Head(ffHist.waitOrder) # ffHist.chain) =>
            /\ ffRemoteClipboardDataRetriesLeft' = ffRemoteClipboardDataRetriesLeft
            /\ ffWaitTimers' = ffWaitTimers - 1 ]_vars

\* keyboardEvent(evt) runs ffWaitForRemoteClipboardDataSet: a copy/cut key
\* event on Firefox with navigator.clipboard.writeText.
StartsRetryWait(evt) ==
    isFirefox /\ browserHasClipboardAccess /\ isCopyKeyboardEvent(evt)

\* The buffered events a replay passes to keyboardEvent (and so to
\* sendKeyboardEvent): all of them, or those up to the one whose delivery
\* throws.
RECURSIVE ReplayedUpTo(_, _)
ReplayedUpTo(events, bad) ==
    IF events = <<>> THEN <<>>
    ELSE IF Head(events).n = bad THEN <<Head(events)>>
    ELSE <<Head(events)>> \o ReplayedUpTo(Tail(events), bad)

\* A step that runs ffWaitForRemoteClipboardDataSet: the firing of a retry
\* timer, a copy/cut key event that captureKeys passes to keyboardEvent (no
\* buffering window is open), or a replay that passes a buffered copy/cut
\* event to keyboardEvent.
RetryWaitStep ==
    \/ FFWaitTimerFires
    \/ /\ ~ffPostponeKeyboardEvents
       /\ \E key \in Keys : StartsRetryWait(key) /\ KeyEvent(key)
    \/ \E bad \in ReplayFailures :
          /\ FFRemoteReceivedFormatList(bad) \/ FFKeyTimerFires(bad)
          /\ LET passed == ReplayedUpTo(ffDelayedKeyboardEvents, bad)
             IN \E i \in 1..Len(passed) : StartsRetryWait(passed[i])

\* The text a write of the payload items puts on the platform clipboard: the
\* string of its first text/plain entry.
HasTextToWrite(items, text) ==
    \E i \in 1..Len(items) :
        /\ items[i].mime = TextPlain
        /\ items[i].value = Str(text)
        /\ \A j \in 1..(i - 1) : items[j].mime # TextPlain

\* C23: in degraded mode a remote clipboard change is never written at
\* receipt: ffOnRemoteClipboardChanged only replaces the content of the
\* holder.  A platform text write happens only in a retry-wait step started
\* by a copy/cut key event, takes the payload out of the holder and writes
\* the string of its text/plain entry; a payload taken out of the holder
\* causes one write if it has such an entry and none otherwise.
C23_WrittenOnlyOnCopyGesture ==
    [][ /\ \A data \in FFRemotePayloads :
              FFRemoteClipboardChanged(data) =>
                  /\ ffRemoteClipboardData' = Ref(data)
                  /\ UNCHANGED << textWrites, platformWrites, ffWaitTimers,
                                  ffRemoteClipboardDataRetriesLeft >>
        /\ textWrites' # textWrites =>
              /\ RetryWaitStep
              /\ ~ffRemoteClipboardData.isNull
              /\ ffRemoteClipboardData' = NoData
              /\ \E i \in 1..Len(textWrites') :
                    /\ textWrites' = Append(textWrites, textWrites'[i])
                    /\ HasTextToWrite(ffRemoteClipboardData.data, textWrites'[i])
        /\ (~ffRemoteClipboardData.isNull /\ ffRemoteClipboardData' = NoData) =>
              /\ RetryWaitStep
              /\ (\E text \in {Hello, World} :
                      HasTextToWrite(ffRemoteClipboardData.data, text))
                 \/ textWrites' = textWrites
        /\ platformWrites' = platformWrites ]_vars

\* A copy keystroke found the holder empty, the payload with a picture and
\* the text "hello" arrived afterwards, and the firing of a retry timer wrote
\* the text and emptied the holder.
C23_Witness ==
    /\ isFirefox
    /\ textWrites = <<Hello>>
    /\ ffRemoteClipboardData = NoData
    /\ ffHist.firings > 0
    /\ ffWaitTimers = 0

\* A replay of the buffered key events, by the format-list signal or by the
\* firing of a postponement timer, in which the delivery of event bad throws
\* (none if bad = 0).
Replay(bad) == FFRemoteReceivedFormatList(bad) \/ FFKeyTimerFires(bad)

\* C24: buffered key events are replayed in capture order on the signal or
\* the timeout, whichever comes first, and no key event is delivered twice:
\* a replay passes the buffered events to the remote session in buffer order,
\* and no two calls of sendKeyboardEvent that returned normally carry the
\* same captured event, also when signal and timeout both occur and when a
\* delivery throws during a replay.
C24_ReplayedOnceInOrder ==
    [][ /\ \A bad \in ReplayFailures :
              Replay(bad) =>
                  sentKeys' = sentKeys \o ReplayedUpTo(ffDelayedKeyboardEvents, bad)
        /\ \A i, j \in 1..Len(sentKeys') :
              (i < j /\ i \notin ffHist'.failed /\ j \notin ffHist'.failed) =>
                  sentKeys'[i].n # sentKeys'[j].n ]_vars

\* C25: a stale postponement timeout is a no-op.  The firing of a timer set
\* by another paste keystroke than the one whose buffering window is open
\* releases nothing: the buffer, the postponement flag and the events sent
\* stay as they are.
C25_StalePostponeTimerIsNoOp ==
    [][ \A bad \in ReplayFailures :
            (FFKeyTimerFires(bad) /\ Head(ffHist.keyOrder) # ffHist.window) =>
                UNCHANGED << ffDelayedKeyboardEvents, ffPostponeKeyboardEvents,
                             sentKeys >> ]_vars

\* The key events delivered: those of keys at a position from on whose
\* sendKeyboardEvent call returned normally.
RECURSIVE DeliveredFrom(_, _, _)
DeliveredFrom(keys, failed, from) ==
    IF from > Len(keys) THEN <<>>
    ELSE IF from \in failed THEN DeliveredFrom(keys, failed, from + 1)
    ELSE <<keys[from]>> \o DeliveredFrom(keys, failed, from + 1)

SerialsOf(keys) == [i \in 1..Len(keys) |-> keys[i].n]

\* C26: input ordering is preserved in degraded mode.  A key event captured
\* while a buffering window is open is queued and not sent, whatever the key;
\* a key event captured outside a window (other than the paste combination
\* that opens one) is sent at once; and the events delivered followed by the
\* events still buffered are exactly the captured events, each once, in
\* capture order.
C26_InputOrderPreserved ==
    [][ /\ \A key \in Keys :
              LET evt == [code |-> key.code, ctrlKey |-> key.ctrlKey,
                          n |-> keyCount + 1]
              IN KeyEvent(key) =>
                    IF ffPostponeKeyboardEvents
                    THEN /\ ffDelayedKeyboardEvents' =
                                Append(ffDelayedKeyboardEvents, evt)
                         /\ sentKeys' = sentKeys
                    ELSE IF isPasteKeyboardEvent(evt)
                    THEN /\ ffPostponeKeyboardEvents'
                         /\ ffDelayedKeyboardEvents' = <<evt>>
                         /\ sentKeys' = sentKeys
                    ELSE sentKeys' = Append(sentKeys, evt)
        /\ SerialsOf(DeliveredFrom(sentKeys', ffHist'.failed, 1)
                        \o ffDelayedKeyboardEvents')
              = [i \in 1..keyCount' |-> i] ]_vars

\* Firefox with the event loop running: a suspended onMount eventually
\* resumes and a pending postponement timer eventually fires.
SpecFFLive ==
    /\ SpecFF
    /\ WF_vars(MountResumes)
    /\ WF_vars(\E bad \in ReplayFailures : FFKeyTimerFires(bad))

\* C29: without the format-list signal the buffered key events are still
\* released by the timeout: whenever key events are being postponed, later
\* on postponement is off and the buffer is empty, so that no captured key
\* event stays buffered for ever.
C29_BufferEventuallyReleased ==
    ffPostponeKeyboardEvents ~>
        (~ffPostponeKeyboardEvents /\ ffDelayedKeyboardEvents = <<>>)

\* The error strings printed so far.
ReportedErrors == {reported[i] : i \in 1..Len(reported)}

\* C27: polling errors are reported once per distinct error value.  A value
\* thrown in a tick is printed if and only if no value with the same string
\* form was printed before, whatever happened in between; the exception does
\* not leave the tick, and the tick still schedules its successor.
C27_ReportedOncePerValue ==
    [][ \A err \in Thrown :
            ((err \in Errors /\ PlatformCallRejects(err)) \/ SendRejects(err)) =>
                /\ reported' = IF err \in ReportedErrors THEN reported
                               ELSE Append(reported, err)
                /\ propagated' = propagated
                /\ tick' = IdleTick
                /\ ~componentDestroyed => pollTimers' = 1 ]_vars

\* Whether the build adds an entry for key holding value.
Classified(key, value) ==
    \/ StartsWithText(key) /\ value.t = "string"
    \/ StartsWithImage(key) /\ value.t = "Uint8Array"

\* C28: the outbound clipboard data built from a snapshot has exactly one
\* entry, holding the key's value, for every key that is text/* with a string
\* or image/* with bytes, in the order of the keys, and no other entry: a key
\* with a null or undefined value or of another kind is dropped and the keys
\* behind it are still added.
C28_OneEntryPerClassifiedKey ==
    \A c \in 1..Len(executed) :
        executed[c].from = "build" =>
            LET order == executed[c].order
                values == executed[c].values
                data == executed[c].data
                kept == {i \in 1..Len(order) : Classified(order[i], values[order[i]])}
            IN /\ Len(data) = Cardinality(kept)
               /\ \A i \in kept :
                     \E j \in 1..Len(data) :
                         /\ data[j] = [mime |-> order[i], value |-> values[order[i]]]
                         /\ j = Cardinality({h \in kept : h <= i})
               /\ \A j \in 1..Len(data) :
                     Classified(data[j].mime, data[j].value)

\* A snapshot whose first key is text/plain holding bytes and whose second
\* is application/octet-stream: both are dropped and the picture behind them
\* is added.
C28_Witness ==
    /\ Len(executed) = 1
    /\ executed[1].from = "build"
    /\ executed[1].order = <<TextPlain, AppOctet, ImagePng>>
    /\ executed[1].values[TextPlain] = Bin(Png1)
    /\ executed[1].values[AppOctet] = Bin(Png1)
    /\ executed[1].values[ImagePng] = Bin(Png1)
    /\ executed[1].data = <<[mime |-> ImagePng, value |-> Bin(Png1)]>>

\* C30: while the component is not torn down the standard poll loop never
\* stalls.  At any moment exactly one of a pending timer and a tick in
\* flight exists, so every tick, whatever its outcome, leaves exactly one
\* successor; a tick in flight always comes to its end; and as long as the
\* component lives and the window has focus a next tick always starts its
\* clipboard read (without focus a tick is a single step that re-arms the
\* timer).
C30_PollLoopNeverStalls ==
    /\ []((isClipboardApiSupported /\ ~componentDestroyed) =>
              pollTimers + TicksInFlight = 1)
    /\ []<>(tick.pc = "idle")
    /\ []<>(\/ tick.pc # "idle"
            \/ componentDestroyed
            \/ ~hasFocus
            \/ ~isClipboardApiSupported)

\* A tick sent a local change, the send was rejected and the error caught,
\* and the successor of that tick is pending.
C30_Witness ==
    /\ isClipboardApiSupported
    /\ ~componentDestroyed
    /\ Len(outbound) = 1
    /\ lastClipboardMonitorLoopError # NoError
    /\ tick.pc = "idle"
    /\ pollTimers = 1
\* ---- C31
\* What a step added to the executed history.
NewlyExecuted == SubSeq(executed', Len(executed) + 1, Len(executed'))

\* The positions at which an entry occurs in a history.
PositionsOf(entry, history) == {j \in 1..Len(history) : history[j] = entry}

\* The number of runs of the action id in a history, whoever called it.
RunsOf(id, history) == Cardinality({j \in 1..Len(history) : history[j].id = id})

\* C31: focusEventHandler re-checks the queue until it is empty.  In a drain
\* during which document.hasFocus() answers false, the follow-up action that
\* a queued action handed to runWhenWindowFocused when it ran (and that was
\* therefore appended to the queue during the drain) is run in that same
\* drain, exactly once, after every action that was queued before the drain
\* and after every follow-up appended before it; and when no action of the
\* drain throws, the queue is empty after the drain.
C31_AppendedRunInSameDrain ==
    [][ FocusEventUnfocused =>
            /\ \A i \in 1..Len(runWhenFocusedQueue) :
                  ( /\ runWhenFocusedQueue[i].k = "nest"
                    /\ PositionsOf([id |-> runWhenFocusedQueue[i].id, from |-> "drain"],
                                   NewlyExecuted) # {} )
                  => LET followUp == [id |-> FollowUp(runWhenFocusedQueue[i].id),
                                      from |-> "drain"]
                         at == PositionsOf(followUp, NewlyExecuted)
                     IN /\ Cardinality(at) = 1
                        /\ RunsOf(followUp.id, executed') = 1
                        /\ \A j \in at :
                              /\ \A e \in 1..Len(runWhenFocusedQueue) :
                                    \E b \in 1..(j - 1) :
                                        NewlyExecuted[b].id = runWhenFocusedQueue[e].id
                              /\ \A e \in 1..(i - 1) :
                                    runWhenFocusedQueue[e].k = "nest"
                                    => \E b \in 1..(j - 1) :
                                          NewlyExecuted[b].id
                                              = FollowUp(runWhenFocusedQueue[e].id)
            /\ (\A i \in 1..Len(runWhenFocusedQueue) : runWhenFocusedQueue[i].k # "throw")
                  => runWhenFocusedQueue' = <<>>
      ]_vars

\* A drain without focus ran a queued action, a second queued action and then
\* the follow-up the first one had appended meanwhile, and left nothing queued.
C31_SameDrain ==
    /\ ~hasFocus
    /\ executed = << [id |-> 1, from |-> "drain"], [id |-> 2, from |-> "drain"],
                     [id |-> FollowUp(1), from |-> "drain"] >>
    /\ runWhenFocusedQueue = <<>>

\* ---- C32
\* C32: in standard mode remote updates are applied in arrival order.  The
\* writes are issued in the order of receipt, no write is issued for an
\* update while an update received earlier still waits in the pending queue,
\* and once no deferred write is pending the last write issued is that of the
\* most recently received update and lastReceivedClipboardData is its
\* snapshot.
C32_AppliedInArrivalOrder ==
    /\ \A i, j \in 1..Len(writeLog) : i < j => writeLog[i].id < writeLog[j].id
    /\ \A w \in WrittenIds : \A q \in QueuedIds : w < q
    /\ (remoteCount > 0 /\ runWhenFocusedQueue = <<>>)
          => /\ writeLog # <<>>
             /\ writeLog[Len(writeLog)].id = remoteCount
             /\ lastReceivedClipboardData = lastRemoteSnapshot

\* ---- C33
\* The step in which a tick calls the outbound onClipboardChanged.
TickSends == TickCompletesLoop /\ outbound' # outbound

\* C33: each detected local change triggers at most one send attempt.  A tick
\* calls the outbound onClipboardChanged only when some kind of the content
\* it observed differs from the client snapshot, and by the time it awaits
\* the call the observed values are the client snapshot and the payload is
\* lastSentClipboardData; when the call fails the tick catches the error and
\* ends with both snapshots unchanged, so that a later tick observing the same
\* content finds nothing changed and does not call again.
C33_OneSendAttemptPerChange ==
    [][ /\ TickSends =>
            LET V == Observed(tick.item)
                payload == BuildClipboardData(TypesOf(tick.item), V)
            IN /\ \E k \in KindsOf(tick.item) :
                     ~is_equal(StartsWithText(k), lastClientClipboardItems[k], V[k])
               /\ lastClientClipboardItems' = V
               /\ lastSentClipboardData' = Ref(payload)
               /\ tick'.pc = "send"
        /\ (\E err \in Thrown : SendRejects(err)) =>
            LET V == Observed(tick.item)
                payload == BuildClipboardData(TypesOf(tick.item), V)
            IN /\ lastClientClipboardItems' = V
               /\ lastSentClipboardData' = Ref(payload)
               /\ propagated' = propagated
               /\ tick' = IdleTick
               /\ outbound' = outbound
               /\ \A k \in KindsOf(tick.item) :
                     is_equal(StartsWithText(k), lastClientClipboardItems'[k], V[k])
      ]_vars

\* The send of the local "world" failed, and a later tick is reading "world"
\* again: nothing was sent a second time.
C33_Witness ==
    /\ tick.pc = "kind"
    /\ tick.item = <<[mime |-> TextPlain, bytes |-> World]>>
    /\ localClipboard = tick.item
    /\ remoteCount = 0
    /\ envEvents = 2
    /\ lastClipboardMonitorLoopError = "DataError"
    /\ reported = <<"DataError">>
    /\ lastClientClipboardItems[TextPlain] = Str(World)
    /\ outbound = <<[op |-> "onClipboardChanged",
                     data |-> <<[mime |-> TextPlain, value |-> Str(World)]>>]>>
    /\ lastSentClipboardData = Ref(<<[mime |-> TextPlain, value |-> Str(World)]>>)

\* ---- C34
\* The buffered key events a step takes out of the buffer.
TakenFromBuffer ==
    {ffDelayedKeyboardEvents[i] : i \in 1..Len(ffDelayedKeyboardEvents)}
        \ {ffDelayedKeyboardEvents'[i] : i \in 1..Len(ffDelayedKeyboardEvents')}

\* A key event was passed to sendKeyboardEvent by a call that returned.
WasDelivered(evt, keys, failed) ==
    \E p \in 1..Len(keys) : keys[p] = evt /\ p \notin failed

\* C34: in every reachable state the delayed-key buffer is empty while
\* postponement is off; the paste keystroke that starts a buffering window
\* (and resets the buffer to that one event) finds the buffer empty, and no
\* step takes an event out of the buffer that was not delivered.
C34_NoBufferOutsideWindow ==
    /\ [](~ffPostponeKeyboardEvents => ffDelayedKeyboardEvents = <<>>)
    /\ [][ /\ \A key \in Keys :
                  (KeyEvent(key) /\ ~ffPostponeKeyboardEvents /\ ffPostponeKeyboardEvents')
                      => ffDelayedKeyboardEvents = <<>>
           /\ \A evt \in TakenFromBuffer :
                  WasDelivered(evt, sentKeys', ffHist'.failed) ]_vars

\* A first buffering window was released, its paste keystroke delivered, and
\* a second paste keystroke has started a new window holding only itself.
C34_Witness ==
    /\ isFirefox
    /\ ffPostponeKeyboardEvents
    /\ Len(ffDelayedKeyboardEvents) = 1
    /\ ffDelayedKeyboardEvents[1].n = 2
    /\ Len(sentKeys) = 1
    /\ sentKeys[1].n = 1
    /\ ffHist.failed = {}

====
